---- MODULE Spec2Model ----
(***************************************************************************)
(* A model of the MPEG-DASH demultiplexer libavformat/dashdec.c: the       *)
(* segment sequencer, the live manifest refresh, the representation byte   *)
(* stream and the packet interleaver.                                      *)
(*                                                                         *)
(* Representations are records that keep the field names of               *)
(* struct representation; the DASHContext is the record c.  C pointers     *)
(* that are only tested for NULL are modelled by a distinguished value     *)
(* (NoFragment, NoString) or a BOOLEAN (input, ctx).                       *)
(***************************************************************************)
EXTENDS Integers, Sequences, FiniteSets, TLC

VARIABLES
    c,      \* the DASHContext (with the videos, audios and subtitles lists)
    net,    \* the external collaborators: the server's manifest and resources
    last,   \* the last operation, its arguments, its result and its pre-state
    fn      \* the sequencer functions applied to a drawn representation

vars == <<c, net, last, fn>>

(***************************************************************************)
(* Values standing for C's NULL pointers and for the error codes.          *)
(***************************************************************************)
NoString == "NULL"
NoFragment == [url |-> NoString, url_offset |-> 0, size |-> 0]

\* The return value 0; results are compared with the error codes below.
RetOk == "0"
AVERROR_EOF == "AVERROR_EOF"
AVERROR_EXIT == "AVERROR_EXIT"
AVERROR_INVALIDDATA == "AVERROR_INVALIDDATA"
AVERROR_INPUT_CHANGED == "AVERROR_INPUT_CHANGED"
AVERROR_ENOSYS == "AVERROR(ENOSYS)"
AVERROR_EIO == "AVERROR(EIO)"

\* F(v), with v evaluated once.
Bind(v, F(_)) == CHOOSE y \in {F(z) : z \in {v}} : TRUE

Min(a, b) == IF a < b THEN a ELSE b
Max(a, b) == IF a > b THEN a ELSE b

\* C's integer division truncates toward zero; TLA+'s \div rounds down.
CDiv(a, b) ==
    IF (a >= 0) = (b > 0) THEN (IF a >= 0 THEN a ELSE -a) \div (IF b > 0 THEN b ELSE -b)
    ELSE -((IF a >= 0 THEN a ELSE -a) \div (IF b > 0 THEN b ELSE -b))


(***************************************************************************)
(* struct representation and DASHContext as av_mallocz leaves them.        *)
(* kind is the list the representation was added to; discard stands for    *)
(* assoc_stream->discard >= AVDISCARD_ALL; input and ctx tell whether the  *)
(* fetcher handle and the inner parser are open.                           *)
(***************************************************************************)
ZeroRep ==
    [kind |-> "video", id |-> NoString, codecs |-> NoString,
     scantype |-> NoString, framerate |-> [num |-> 0, den |-> 0],
     width |-> 0, height |-> 0,
     fragments |-> <<>>, timelines |-> <<>>,
     first_seq_no |-> 0, last_seq_no |-> 0, start_number |-> 0,
     fragment_duration |-> 0, fragment_timescale |-> 0,
     presentation_timeoffset |-> 0,
     cur_seq_no |-> 0, cur_seg_offset |-> 0, cur_seg_size |-> 0,
     cur_seg |-> NoFragment,
     period_media_presentation_duration |-> 0, period_start |-> 0,
     period_duration |-> 0,
     init_section |-> NoFragment, init_sec_buf |-> <<>>,
     init_sec_buf_size |-> 0, init_sec_data_len |-> 0,
     init_sec_buf_read_offset |-> 0, init_loaded |-> FALSE,
     cur_timestamp |-> 0, is_restart_needed |-> FALSE,
     input |-> FALSE, ctx |-> FALSE, discard |-> FALSE]

ZeroContext ==
    [base_url |-> NoString,
     videos |-> <<>>, audios |-> <<>>, subtitles |-> <<>>,
     media_presentation_duration |-> 0, suggested_presentation_delay |-> 0,
     availability_start_time |-> 0, publish_time |-> 0,
     minimum_update_period |-> 0, time_shift_buffer_depth |-> 0,
     min_buffer_time |-> 0,
     period_duration |-> 0, period_start |-> 0,
     use_timeline_segment_offset_correction |-> TRUE,
     fetch_completed_segments_only |-> TRUE,
     is_live |-> FALSE,
     interrupt_callback |-> FALSE,
     is_init_section_common_video |-> FALSE,
     is_init_section_common_audio |-> FALSE]

\* One S element as parse_manifest_segmenttimeline stores it.
S(t, d, r) == [starttime |-> t, duration |-> d, repeat |-> r]

(***************************************************************************)
(* The sequencer: sequence number <-> segment start time on a timeline.    *)
(***************************************************************************)

\* The inner for loop over the repeats of one S entry (lines 301-306):
\* j counts the repetitions done, num the segments passed.
RECURSIVE StartTimeRepeat(_, _, _, _, _, _)
StartTimeRepeat(j, repeat, duration, num, start_time, target) ==
    IF j >= repeat THEN [fin |-> FALSE, num |-> num, start_time |-> start_time]
    ELSE IF num + 1 = target
         THEN [fin |-> TRUE, num |-> num + 1, start_time |-> start_time]
         ELSE StartTimeRepeat(j + 1, repeat, duration, num + 1,
                              start_time + duration, target)

\* A walk over the S entries that takes no entry's own start time.
RECURSIVE StartTimeWalk_no_override(_, _, _, _, _)
StartTimeWalk_no_override(timelines, i, num, start_time, target) ==
    IF i > Len(timelines) THEN start_time
    ELSE LET e == timelines[i]
         IN  IF num = target THEN start_time
             ELSE IF e.repeat = -1 THEN e.duration * target
             ELSE LET r == StartTimeRepeat(0, e.repeat, e.duration, num,
                                           start_time + e.duration, target)
                  IN  IF r.fin THEN r.start_time
                      ELSE StartTimeWalk_no_override(timelines, i + 1, r.num + 1,
                                                     r.start_time, target)

\* The outer for loop over the S entries (lines 287-308).
RECURSIVE StartTimeWalk(_, _, _, _, _)
StartTimeWalk(timelines, i, num, start_time, target) ==
    IF i > Len(timelines) THEN start_time
    ELSE LET e == timelines[i]
             st1 == IF e.starttime > 0 THEN e.starttime ELSE start_time
         IN  IF num = target THEN st1
             ELSE IF e.repeat = -1 THEN e.duration * target
             ELSE LET r == StartTimeRepeat(0, e.repeat, e.duration, num,
                                           st1 + e.duration, target)
                  IN  IF r.fin THEN r.start_time
                      ELSE StartTimeWalk(timelines, i + 1, r.num + 1,
                                         r.start_time, target)

\* A start time function that never subtracts first_seq_no.
get_segment_start_time_based_on_timeline_no_correction(cx, pls, cur_seq_no) ==
    IF Len(pls.timelines) = 0 THEN 0
    ELSE StartTimeWalk(pls.timelines, 1, 0, 0, cur_seq_no)

get_segment_start_time_based_on_timeline(cx, pls, cur_seq_no) ==
    IF Len(pls.timelines) = 0 THEN 0
    ELSE LET target ==
                 IF cx.use_timeline_segment_offset_correction
                    /\ cur_seq_no >= pls.first_seq_no
                 THEN cur_seq_no - pls.first_seq_no
                 ELSE cur_seq_no
         IN  StartTimeWalk(pls.timelines, 1, 0, 0, target)

\* The inner for loop of calc_next_seg_no_from_timelines (lines 329-334).
RECURSIVE NextSegRepeat(_, _, _, _, _, _)
NextSegRepeat(j, repeat, duration, num, start_time, cur_time) ==
    IF j >= repeat THEN [fin |-> FALSE, num |-> num, start_time |-> start_time]
    ELSE IF start_time > cur_time
         THEN [fin |-> TRUE, num |-> num + 1, start_time |-> start_time]
         ELSE NextSegRepeat(j + 1, repeat, duration, num + 1,
                            start_time + duration, cur_time)

\* The outer for loop (lines 321-336): the number of segments passed when the
\* running start time first exceeds cur_time, or -1.
RECURSIVE NextSegWalk(_, _, _, _, _)
NextSegWalk(timelines, i, num, start_time, cur_time) ==
    IF i > Len(timelines) THEN -1
    ELSE LET e == timelines[i]
             st1 == IF e.starttime > 0 THEN e.starttime ELSE start_time
         IN  IF st1 > cur_time THEN num
             ELSE LET r == NextSegRepeat(0, e.repeat, e.duration, num,
                                         st1 + e.duration, cur_time)
                  IN  IF r.fin THEN r.num
                      ELSE NextSegWalk(timelines, i + 1, r.num + 1,
                                       r.start_time, cur_time)

\* A plausible slip: the comparison start_time >= cur_time in place of >.
RECURSIVE NextSegRepeat_ge(_, _, _, _, _, _)
NextSegRepeat_ge(j, repeat, duration, num, start_time, cur_time) ==
    IF j >= repeat THEN [fin |-> FALSE, num |-> num, start_time |-> start_time]
    ELSE IF start_time >= cur_time
         THEN [fin |-> TRUE, num |-> num + 1, start_time |-> start_time]
         ELSE NextSegRepeat_ge(j + 1, repeat, duration, num + 1,
                               start_time + duration, cur_time)

RECURSIVE NextSegWalk_ge(_, _, _, _, _)
NextSegWalk_ge(timelines, i, num, start_time, cur_time) ==
    IF i > Len(timelines) THEN -1
    ELSE LET e == timelines[i]
             st1 == IF e.starttime > 0 THEN e.starttime ELSE start_time
         IN  IF st1 >= cur_time THEN num
             ELSE LET r == NextSegRepeat_ge(0, e.repeat, e.duration, num,
                                            st1 + e.duration, cur_time)
                  IN  IF r.fin THEN r.num
                      ELSE NextSegWalk_ge(timelines, i + 1, r.num + 1,
                                          r.start_time, cur_time)

calc_next_seg_no_from_timelines_ge(cx, pls, cur_time) ==
    LET num == NextSegWalk_ge(pls.timelines, 1, 0, 0, cur_time)
    IN  IF num = -1 THEN -1
        ELSE IF cx.use_timeline_segment_offset_correction
             THEN num + pls.first_seq_no
             ELSE num

calc_next_seg_no_from_timelines(cx, pls, cur_time) ==
    LET num == NextSegWalk(pls.timelines, 1, 0, 0, cur_time)
    IN  IF num = -1 THEN -1
        ELSE IF cx.use_timeline_segment_offset_correction
             THEN num + pls.first_seq_no
             ELSE num

(***************************************************************************)
(* The last available sequence number.                                     *)
(***************************************************************************)

\* The for loop of the timeline branch (lines 1555-1562).
RECURSIVE MaxSegTimelines(_, _, _, _)
MaxSegTimelines(pls, cx, i, num) ==
    IF i > Len(pls.timelines) THEN num
    ELSE IF pls.timelines[i].repeat = -1
         THEN LET length_of_each_segment ==
                      CDiv(pls.timelines[i].duration, pls.fragment_timescale)
              IN  MaxSegTimelines(pls, cx, i + 1,
                                  CDiv(cx.period_duration, length_of_each_segment))
         ELSE MaxSegTimelines(pls, cx, i + 1, num + pls.timelines[i].repeat)

\* A calc_max_seg_no that counts one segment more on a timeline.
calc_max_seg_no_one_more(pls, cx, now) ==
    IF Len(pls.fragments) > 0
    THEN pls.first_seq_no + Len(pls.fragments) - 1
    ELSE IF Len(pls.timelines) > 0
    THEN MaxSegTimelines(pls, cx, 1, pls.first_seq_no + Len(pls.timelines))
    ELSE IF cx.is_live /\ pls.fragment_duration # 0
    THEN LET num == pls.first_seq_no
                    + CDiv((now - cx.availability_start_time) * pls.fragment_timescale,
                           pls.fragment_duration)
         IN  IF num > pls.first_seq_no /\ cx.fetch_completed_segments_only
             THEN num - 1 ELSE num
    ELSE IF pls.fragment_duration # 0
    THEN pls.first_seq_no
         + CDiv(cx.media_presentation_duration * pls.fragment_timescale,
                pls.fragment_duration)
    ELSE 0

\* now is get_current_time_in_sec().
calc_max_seg_no(pls, cx, now) ==
    IF Len(pls.fragments) > 0
    THEN pls.first_seq_no + Len(pls.fragments) - 1
    ELSE IF Len(pls.timelines) > 0
    THEN MaxSegTimelines(pls, cx, 1, pls.first_seq_no + Len(pls.timelines) - 1)
    ELSE IF cx.is_live /\ pls.fragment_duration # 0
    THEN LET num == pls.first_seq_no
                    + CDiv((now - cx.availability_start_time) * pls.fragment_timescale,
                           pls.fragment_duration)
         IN  IF num > pls.first_seq_no /\ cx.fetch_completed_segments_only
             THEN num - 1 ELSE num
    ELSE IF pls.fragment_duration # 0
    THEN pls.first_seq_no
         + CDiv(cx.media_presentation_duration * pls.fragment_timescale,
                pls.fragment_duration)
    ELSE 0

(***************************************************************************)
(* parse_manifest.  The manifest document the server returns is the record *)
(* the XML parser makes of it:                                             *)
(*   [status, location, is_live, media_presentation_duration, periods]     *)
(* with status "ok", "open_failed" (avio_open2 fails) or "unreadable" (the *)
(* read fails or the root element is not an MPD), location the URL the     *)
(* document was served from, and each period                              *)
(*   [start, duration, videos, audios, subtitles]                          *)
(* holding its representations as parse_manifest_representation builds     *)
(* them.                                                                   *)
(***************************************************************************)

\* A SelectPeriodStep that takes every Period as the default one, whatever
\* its start.
SelectPeriodStep_any_default(sel, period, idx, curr_timepoint) ==
    LET d == IF sel.matching = 0
             THEN [sel EXCEPT
                      !.period_duration = period.duration,
                      !.period_start = period.start,
                      !.default = idx,
                      !.media_presentation_duration =
                          IF period.start > 0 THEN period.duration ELSE @]
             ELSE sel
         diff_val == curr_timepoint - period.start
    IN  IF diff_val >= 0 /\ (d.min_period_diff = -1 \/ diff_val <= d.min_period_diff)
        THEN [d EXCEPT
                 !.min_period_diff = diff_val,
                 !.period_duration = period.duration,
                 !.period_start = period.start,
                 !.matching = idx,
                 !.media_presentation_duration =
                     IF period.start > 0 THEN period.duration ELSE @]
        ELSE d

\* One Period element in the loop of lines 1392-1447; sel carries c's period
\* fields and the two candidate nodes (0: none).
SelectPeriodStep(sel, period, idx, curr_timepoint) ==
    LET d == IF sel.matching = 0 /\ period.start >= sel.period_start
             THEN [sel EXCEPT
                      !.period_duration = period.duration,
                      !.period_start = period.start,
                      !.default = idx,
                      !.media_presentation_duration =
                          IF period.start > 0 THEN period.duration ELSE @]
             ELSE sel
         diff_val == curr_timepoint - period.start
    IN  IF diff_val >= 0 /\ (d.min_period_diff = -1 \/ diff_val <= d.min_period_diff)
        THEN [d EXCEPT
                 !.min_period_diff = diff_val,
                 !.period_duration = period.duration,
                 !.period_start = period.start,
                 !.matching = idx,
                 !.media_presentation_duration =
                     IF period.start > 0 THEN period.duration ELSE @]
        ELSE d

RECURSIVE SelectPeriod(_, _, _, _)
SelectPeriod(sel, periods, idx, curr_timepoint) ==
    IF idx > Len(periods) THEN sel
    ELSE SelectPeriod(SelectPeriodStep(sel, periods[idx], idx, curr_timepoint),
                      periods, idx + 1, curr_timepoint)

\* Returns [ret, c]: c with the manifest's attributes, the selected period
\* and that period's representations appended to the three lists.
parse_manifest(cx, m, curr_timepoint) ==
    IF m.status = "open_failed" THEN [ret |-> AVERROR_EIO, c |-> cx]
    ELSE
    LET c1 == [cx EXCEPT !.base_url = m.location]
    IN  IF m.status = "unreadable" THEN [ret |-> AVERROR_INVALIDDATA, c |-> c1]
        ELSE
        LET c2 == [c1 EXCEPT
                      !.is_live = @ \/ m.is_live,
                      !.media_presentation_duration =
                          m.media_presentation_duration]
            sel == SelectPeriod(
                       [period_start |-> c2.period_start,
                        period_duration |-> c2.period_duration,
                        media_presentation_duration |->
                            c2.media_presentation_duration,
                        min_period_diff |-> -1, matching |-> 0, default |-> 0],
                       m.periods, 1, curr_timepoint)
            c3 == [c2 EXCEPT
                      !.period_start = sel.period_start,
                      !.period_duration = sel.period_duration,
                      !.media_presentation_duration =
                          sel.media_presentation_duration]
            chosen == IF sel.matching # 0 THEN sel.matching ELSE sel.default
        IN  IF chosen = 0 THEN [ret |-> AVERROR_INVALIDDATA, c |-> c3]
            ELSE [ret |-> RetOk,
                  c |-> [c3 EXCEPT
                            !.videos = @ \o m.periods[chosen].videos,
                            !.audios = @ \o m.periods[chosen].audios,
                            !.subtitles = @ \o m.periods[chosen].subtitles]]

(***************************************************************************)
(* The live refresh: refresh_manifest and the moves it is made of.         *)
(***************************************************************************)

\* libavutil's av_cmp_q: 0 when a = b, 1 or -1 when they differ, and INT_MIN
\* when one of the two is of the form 0/0.
av_cmp_q(a, b) ==
    LET tmp == a.num * b.den - b.num * a.den
    IN  IF tmp # 0
        THEN (IF (tmp < 0) = ((a.den < 0) = (b.den < 0)) THEN -1 ELSE 1)
        ELSE IF b.den # 0 /\ a.den # 0 THEN 0
        ELSE IF a.num # 0 /\ b.num # 0
        THEN (IF a.num < 0 THEN -1 ELSE 0) - (IF b.num < 0 THEN -1 ELSE 0)
        ELSE -2147483647 - 1

\* Returns [ret, dest]: the live representation takes the differing
\* attribute of the shadow before input-changed is returned.
move_video_params(rep_src, rep_dest) ==
    IF rep_src.width # rep_dest.width \/ rep_src.height # rep_dest.height
    THEN [ret |-> AVERROR_INPUT_CHANGED,
          dest |-> [rep_dest EXCEPT !.width = rep_src.width,
                                    !.height = rep_src.height]]
    ELSE IF av_cmp_q(rep_src.framerate, rep_dest.framerate) # 0
    THEN [ret |-> AVERROR_INPUT_CHANGED,
          dest |-> [rep_dest EXCEPT !.framerate = rep_src.framerate]]
    ELSE IF /\ rep_src.codecs # NoString /\ rep_dest.codecs # NoString
            /\ rep_src.codecs # rep_dest.codecs
    THEN [ret |-> AVERROR_INPUT_CHANGED,
          dest |-> [rep_dest EXCEPT !.codecs = rep_src.codecs]]
    ELSE IF /\ rep_src.scantype # NoString /\ rep_dest.scantype # NoString
            /\ rep_src.scantype # rep_dest.scantype
    THEN [ret |-> AVERROR_INPUT_CHANGED,
          dest |-> [rep_dest EXCEPT !.scantype = rep_src.scantype]]
    ELSE IF (rep_src.codecs # NoString) # (rep_dest.codecs # NoString)
    THEN [ret |-> AVERROR_INPUT_CHANGED, dest |-> rep_dest]
    ELSE IF (rep_src.scantype # NoString) # (rep_dest.scantype # NoString)
    THEN [ret |-> AVERROR_INPUT_CHANGED, dest |-> rep_dest]
    ELSE [ret |-> RetOk, dest |-> rep_dest]

move_audio_params(rep_src, rep_dest) ==
    IF /\ rep_src.codecs # NoString /\ rep_dest.codecs # NoString
       /\ rep_src.codecs # rep_dest.codecs
    THEN [ret |-> AVERROR_INPUT_CHANGED,
          dest |-> [rep_dest EXCEPT !.codecs = rep_src.codecs]]
    ELSE IF (rep_src.codecs # NoString) # (rep_dest.codecs # NoString)
    THEN [ret |-> AVERROR_INPUT_CHANGED, dest |-> rep_dest]
    ELSE [ret |-> RetOk, dest |-> rep_dest]

\* rep_dest after the move; cx is the context parse_manifest has updated.
move_timelines(rep_src, rep_dest, cx, now) ==
    LET d1 == [rep_dest EXCEPT !.timelines = rep_src.timelines,
                               !.first_seq_no = rep_src.first_seq_no]
    IN  [d1 EXCEPT !.last_seq_no = calc_max_seg_no(d1, cx, now),
                   !.cur_seq_no = rep_src.cur_seq_no,
                   !.cur_timestamp = rep_src.cur_timestamp]

move_segments(rep_src, rep_dest, cx, now) ==
    LET d1 == [rep_dest EXCEPT
                  !.cur_seq_no =
                      IF rep_src.start_number
                             > rep_dest.start_number + Len(rep_dest.fragments)
                      THEN 0
                      ELSE @ + rep_src.start_number - rep_dest.start_number,
                  !.fragments = rep_src.fragments]
    IN  [d1 EXCEPT !.last_seq_no = calc_max_seg_no(d1, cx, now),
                   !.cur_timestamp = rep_src.cur_timestamp]

move_init_section(rep_src, rep_dest) ==
    [rep_dest EXCEPT !.init_loaded = FALSE,
                     !.init_sec_buf = rep_src.init_sec_buf,
                     !.init_sec_buf_read_offset = 0,
                     !.init_sec_buf_size = rep_src.init_sec_buf_size,
                     !.init_sec_data_len = rep_src.init_sec_data_len,
                     !.init_section = rep_src.init_section]

set_representation_period(cx, rep) ==
    [rep EXCEPT !.period_start = cx.period_start,
                !.period_duration = cx.period_duration,
                !.period_media_presentation_duration =
                    cx.media_presentation_duration]

get_curr_timepoint(cx, pls) ==
    IF cx.is_live /\ Len(pls.timelines) > 0
    THEN IF pls.period_start = 0 THEN 0
         ELSE pls.period_start
              + CDiv(get_segment_start_time_based_on_timeline(cx, pls, pls.cur_seq_no),
                     pls.fragment_timescale)
    ELSE IF cx.is_live /\ pls.fragment_duration # 0
    THEN CDiv(pls.first_seq_no * pls.fragment_duration, pls.fragment_timescale)
    ELSE 0

\* The three lists by name.
RepList(cx, kind) ==
    IF kind = "video" THEN cx.videos
    ELSE IF kind = "audio" THEN cx.audios
    ELSE cx.subtitles

SetRep(cx, kind, i, rep) ==
    IF kind = "video" THEN [cx EXCEPT !.videos[i] = rep]
    ELSE IF kind = "audio" THEN [cx EXCEPT !.audios[i] = rep]
    ELSE [cx EXCEPT !.subtitles[i] = rep]

\* The inner for loop over the new list (lines 1781-1788): the index of the
\* first representation with the same id, 0 when there is none.
FindById(reps, id) ==
    LET hits == {j \in 1 .. Len(reps) :
                    reps[j].id # NoString /\ id # NoString /\ reps[j].id = id}
    IN  IF hits = {} THEN 0 ELSE CHOOSE j \in hits : \A k \in hits : j <= k

\* Lines 1801-1830: the live representation cur spliced from its shadow
\* ccur; cx is the context parse_manifest has updated.
SpliceRep(ccur, cur, cx, now) ==
    LET after_timelines ==
            IF Len(cur.timelines) > 0
            THEN IF cx.period_start > cur.period_start
                 THEN LET src == [ccur EXCEPT !.cur_seq_no = ccur.first_seq_no]
                      IN  move_init_section(src, move_timelines(src, cur, cx, now))
                 ELSE LET currentTime ==
                              CDiv(get_segment_start_time_based_on_timeline(
                                       cx, cur, cur.cur_seq_no),
                                   cur.fragment_timescale)
                          newSeqNo ==
                              calc_next_seg_no_from_timelines(
                                  cx, ccur,
                                  currentTime * ccur.fragment_timescale - 1)
                      IN  IF newSeqNo >= 0
                          THEN move_timelines([ccur EXCEPT !.cur_seq_no = newSeqNo],
                                              cur, cx, now)
                          ELSE cur
            ELSE cur
        after_segments ==
            IF Len(after_timelines.fragments) > 0
            THEN LET d == move_segments(ccur, after_timelines, cx, now)
                 IN  IF cx.period_start > d.period_start
                     THEN [move_init_section(ccur, d) EXCEPT
                              !.cur_seq_no = ccur.start_number]
                     ELSE d
            ELSE after_timelines
    IN  set_representation_period(cx, after_segments)

\* The label finish (lines 1893-1913): the new base_url is kept when the
\* parse set one, the three lists are the saved ones.
RefreshFinish(cnew, saved, ret) ==
    [ret |-> ret,
     c |-> [cnew EXCEPT
               !.base_url = IF cnew.base_url # NoString
                            THEN cnew.base_url ELSE saved.base_url,
               !.videos = saved.videos,
               !.audios = saved.audios,
               !.subtitles = saved.subtitles]]

\* refresh_manifest(s, target_rep) with target_rep the i-th representation
\* of the list kind, and m the document the server returns.  [ret, c].
refresh_manifest(cx, kind, i, m, now) ==
    LET target == RepList(cx, kind)[i]
        curr_timepoint == get_curr_timepoint(cx, target)
        p == parse_manifest(
                 [cx EXCEPT !.base_url = NoString, !.videos = <<>>,
                            !.audios = <<>>, !.subtitles = <<>>],
                 m, curr_timepoint)
    IN  IF p.ret # RetOk THEN RefreshFinish(p.c, cx, p.ret)
        ELSE IF kind = "subtitle" THEN RefreshFinish(p.c, cx, RetOk)
        ELSE
        LET j == FindById(RepList(p.c, kind), target.id)
        IN  IF j = 0 THEN [ret |-> AVERROR_INVALIDDATA, c |-> p.c]
            ELSE
            LET ccur == RepList(p.c, kind)[j]
                mv == IF kind = "video" THEN move_video_params(ccur, target)
                      ELSE move_audio_params(ccur, target)
            IN  IF mv.ret # RetOk
                THEN RefreshFinish(p.c, SetRep(cx, kind, i, mv.dest), mv.ret)
                ELSE RefreshFinish(
                         p.c,
                         SetRep(cx, kind, i, SpliceRep(ccur, mv.dest, p.c, now)),
                         RetOk)

(***************************************************************************)
(* The sequencer functions on their own: a timeline-style representation   *)
(* is drawn, and each step applies one of the functions to it.             *)
(***************************************************************************)
FnMaxEntries == 2
FnMaxRepeat == 1
FnMaxFirstSeqNo == 1
FnPeriodDuration == 3
FnStartTimes == {0, 3}
FnDurations == {1, 2}

FnEntries ==
    {S(t, d, r) : t \in FnStartTimes, d \in FnDurations, r \in -1 .. FnMaxRepeat}

\* The timelines: every sequence of entries within the bounds, one run of
\* five segments of duration 3, and one with a discontinuity at 10.
FnTimelines ==
    UNION {[1 .. n -> FnEntries] : n \in 1 .. FnMaxEntries}
    \cup {<<S(0, 3, 4)>>, <<S(0, 2, 1), S(10, 2, 0)>>}

FnNone == [op |-> "none", arg |-> 0, res |-> 0, res1 |-> 0]

InitFn ==
    /\ \E tl \in FnTimelines, first \in 0 .. FnMaxFirstSeqNo, corr \in BOOLEAN :
          LET cx == [ZeroContext EXCEPT
                        !.use_timeline_segment_offset_correction = corr,
                        !.period_duration = FnPeriodDuration]
              rep0 == [ZeroRep EXCEPT !.timelines = tl,
                                      !.first_seq_no = first,
                                      !.start_number = first,
                                      !.fragment_timescale = 1]
          IN  /\ c = cx
              /\ fn = [pls |-> [rep0 EXCEPT !.last_seq_no = calc_max_seg_no(rep0, cx, 0)],
                       call |-> FnNone]
    /\ net = 0
    /\ last = 0

\* The sequence numbers the representation holds.
FnValid == fn.pls.first_seq_no .. fn.pls.last_seq_no

\* get_segment_start_time_based_on_timeline(c, pls, N)
FnStartTime ==
    /\ \E N \in FnValid :
          fn' = [fn EXCEPT !.call =
                    [op |-> "start_time", arg |-> N,
                     res |-> get_segment_start_time_based_on_timeline(c, fn.pls, N),
                     res1 |-> 0]]
    /\ UNCHANGED <<c, net, last>>

\* calc_next_seg_no_from_timelines(c, pls, t) for the start time t of N, and
\* for the tick before it (the argument refresh_manifest passes).
FnRoundTrip ==
    /\ \E N \in FnValid :
          LET t == get_segment_start_time_based_on_timeline(c, fn.pls, N)
          IN  fn' = [fn EXCEPT !.call =
                        [op |-> "round_trip", arg |-> N,
                         res |-> calc_next_seg_no_from_timelines(c, fn.pls, t),
                         res1 |-> calc_next_seg_no_from_timelines(c, fn.pls, t - 1)]]
    /\ UNCHANGED <<c, net, last>>

\* calc_max_seg_no(pls, c), as move_timelines calls it on the representation.
FnMaxSegNo ==
    /\ fn' = [fn EXCEPT !.call =
                 [op |-> "max_seg_no", arg |-> 0,
                  res |-> calc_max_seg_no(fn.pls, c, 0), res1 |-> 0]]
    /\ UNCHANGED <<c, net, last>>

NextFn == FnStartTime \/ FnRoundTrip \/ FnMaxSegNo

SpecFn == InitFn /\ [][NextFn]_vars

(***************************************************************************)
(* The time point of a refresh on its own: a live representation, timeline *)
(* or template style, bound to a period is drawn, and each step computes   *)
(* the curr_timepoint refresh_manifest would pass to parse_manifest with   *)
(* the reader at one of its sequence numbers.                              *)
(***************************************************************************)
TpMaxPeriodStart == 2
TpMaxTimescale == 2
TpMaxDuration == 3

\* The timelines without an open-ended entry.
TpTimelines ==
    {tl \in FnTimelines : \A i \in 1 .. Len(tl) : tl[i].repeat >= 0}

TpReps ==
    {[ZeroRep EXCEPT !.timelines = tl, !.first_seq_no = first,
                     !.start_number = first, !.fragment_timescale = ts] :
        tl \in TpTimelines, first \in 0 .. FnMaxFirstSeqNo,
        ts \in 1 .. TpMaxTimescale}
    \cup {[ZeroRep EXCEPT !.first_seq_no = first, !.start_number = first,
                          !.fragment_duration = dur,
                          !.fragment_timescale = ts] :
             first \in 0 .. FnMaxFirstSeqNo, dur \in 1 .. TpMaxDuration,
             ts \in 1 .. TpMaxTimescale}

InitTp ==
    /\ c = [ZeroContext EXCEPT !.is_live = TRUE]
    /\ \E rep \in TpReps, start \in 0 .. TpMaxPeriodStart :
          fn = [pls |-> [rep EXCEPT !.last_seq_no = calc_max_seg_no(rep, c, 0),
                                    !.period_start = start],
                call |-> FnNone]
    /\ net = 0
    /\ last = 0

\* get_curr_timepoint(pls) with the reader at sequence number N (line 1742).
TpTimepoint ==
    /\ \E N \in fn.pls.first_seq_no .. fn.pls.last_seq_no :
          fn' = [fn EXCEPT
                    !.pls.cur_seq_no = N,
                    !.call = [op |-> "timepoint", arg |-> N,
                              res |-> get_curr_timepoint(
                                          c, [fn.pls EXCEPT !.cur_seq_no = N]),
                              res1 |-> 0]]
    /\ UNCHANGED <<c, net, last>>

NextTp == TpTimepoint

SpecTp == InitTp /\ [][NextTp]_vars

(***************************************************************************)
(* The choice of the Period on its own: parse_manifest is applied to a     *)
(* document of a few Periods, each with one video representation named     *)
(* after its place in the document.                                        *)
(***************************************************************************)
PerMaxPeriods == 3
PerMaxStart == 3

\* The start attributes of the Periods of a document, in document order.
PerStarts ==
    UNION {[1 .. n -> 0 .. PerMaxStart] : n \in 0 .. PerMaxPeriods}

PerManifest(starts) ==
    [status |-> "ok", location |-> "mpd", is_live |-> TRUE,
     media_presentation_duration |-> 0,
     periods |-> [k \in 1 .. Len(starts) |->
                     [start |-> starts[k], duration |-> 0,
                      videos |-> <<[ZeroRep EXCEPT !.kind = "video",
                                                   !.id = ToString(k)]>>,
                      audios |-> <<>>, subtitles |-> <<>>]]]

PerNone == [op |-> "none", ret |-> RetOk, chosen |-> NoString, period_start |-> 0]

\* starts: the document; period_start: c->period_start as an earlier parse
\* left it; curr_timepoint: the argument of parse_manifest.
InitPer ==
    /\ fn \in [starts : PerStarts, period_start : 0 .. PerMaxStart,
               curr_timepoint : 0 .. PerMaxStart + 1, call : {PerNone}]
    /\ c = ZeroContext
    /\ net = 0
    /\ last = 0

\* parse_manifest(s, url, in, curr_timepoint): chosen is the id of the
\* representation it has put in c->videos.
PerParse ==
    /\ \E p \in {parse_manifest(
                     [ZeroContext EXCEPT !.is_live = TRUE,
                                         !.period_start = fn.period_start],
                     PerManifest(fn.starts), fn.curr_timepoint)} :
          fn' = [fn EXCEPT
                    !.call = [op |-> "parse", ret |-> p.ret,
                              chosen |-> IF p.ret = RetOk THEN p.c.videos[1].id
                                         ELSE NoString,
                              period_start |-> p.c.period_start]]
    /\ UNCHANGED <<c, net, last>>

NextPer == PerParse

SpecPer == InitPer /\ [][NextPer]_vars

(***************************************************************************)
(* The live refresh on its own: a live presentation is open, one of its    *)
(* representations is being read (the driver, whose get_current_fragment   *)
(* calls refresh_manifest), and each step is one refresh_manifest against  *)
(* the document the server returns at that moment.                         *)
(***************************************************************************)
RefMaxTimescale == 2
RefMaxSlide == 1
RefMaxAppend == 1
RefMaxSeq == 6
RefMaxRefreshes == 3

\* What parse_manifest_representation makes of one Representation element.
\* attrs are its media attributes, desc its segment descriptor.
ParsedRep(kind, id, attrs, desc) ==
    LET r0 == [ZeroRep EXCEPT !.kind = kind, !.id = id]
        r1 == IF kind = "video"
              THEN [r0 EXCEPT !.codecs = attrs.codecs,
                              !.scantype = attrs.scantype,
                              !.width = attrs.width,
                              !.height = attrs.height,
                              !.framerate = attrs.framerate]
              ELSE IF kind = "audio"
              THEN [r0 EXCEPT !.codecs = attrs.acodecs]
              ELSE r0
    IN  IF desc.style = "timeline"
        THEN [r1 EXCEPT !.timelines = desc.timelines,
                        !.first_seq_no = desc.first,
                        !.start_number = desc.first,
                        !.fragment_timescale = desc.timescale,
                        !.init_section = [url |-> "init", url_offset |-> 0,
                                          size |-> -1]]
        ELSE IF desc.style = "list"
        THEN [r1 EXCEPT !.fragments =
                            [k \in 1 .. desc.n |->
                                [url |-> ToString(desc.first + k - 1),
                                 url_offset |-> 0, size |-> -1]],
                        !.first_seq_no = desc.first,
                        !.start_number = desc.first]
        ELSE [r1 EXCEPT !.first_seq_no = desc.first,
                        !.start_number = desc.first,
                        !.fragment_duration = desc.duration,
                        !.fragment_timescale = desc.timescale,
                        !.init_section = [url |-> "init", url_offset |-> 0,
                                          size |-> -1]]

RefAttrs ==
    [codecs |-> "avc1", scantype |-> "progressive", width |-> 640,
     height |-> 360, framerate |-> [num |-> 25, den |-> 1],
     acodecs |-> "mp4a"]

\* The attributes of a new manifest: unchanged, or one of them changed.
RefAttrsVariants ==
    {RefAttrs,
     [RefAttrs EXCEPT !.codecs = "hev1"],
     [RefAttrs EXCEPT !.width = 1280],
     [RefAttrs EXCEPT !.height = 720],
     [RefAttrs EXCEPT !.framerate = [num |-> 30, den |-> 1]],
     [RefAttrs EXCEPT !.scantype = "interlaced"],
     [RefAttrs EXCEPT !.acodecs = "ac-3"]}

\* One Period with one representation of each kind, all three with the
\* segment descriptor desc; vid is the id of the video representation.
RefPeriod(start, desc, attrs, vid) ==
    [start |-> start, duration |-> 0,
     videos |-> <<ParsedRep("video", vid, attrs, desc)>>,
     audios |-> <<ParsedRep("audio", "a1", attrs, desc)>>,
     subtitles |-> <<ParsedRep("subtitle", "s1", attrs, desc)>>]

RefManifest(periods) ==
    [status |-> "ok", location |-> "mpd", is_live |-> TRUE,
     media_presentation_duration |-> 0, periods |-> periods]

\* A sliding window of unit-duration segments: the window has slid by a
\* segments (startNumber and the first S@t follow it), and k single-segment
\* S entries are appended to the run of two.
RefTimelineDesc(ts, a, k) ==
    [style |-> "timeline", first |-> a, timescale |-> ts,
     timelines |-> <<S(a, 1, 1)>> \o [x \in 1 .. k |-> S(0, 1, 0)]]

RefListDesc(a, k) ==
    [style |-> "list", first |-> a, n |-> 2 + k]

RefDescs(style, ts) ==
    IF style = "timeline"
    THEN {RefTimelineDesc(ts, a, k) : a \in 0 .. RefMaxSlide, k \in 0 .. RefMaxAppend}
    ELSE {RefListDesc(a, k) : a \in 0 .. RefMaxSlide, k \in 0 .. RefMaxAppend}

\* The documents the server may return to a refresh.
RefManifests(style, ts) ==
    {RefManifest(<<RefPeriod(0, d, RefAttrs, "v1")>>) : d \in RefDescs(style, ts)}
    \cup {RefManifest(<<RefPeriod(0, CHOOSE d \in RefDescs(style, ts) :
                                         d.first = 0 /\ (style = "list" => d.n = 2)
                                         /\ (style = "timeline" => Len(d.timelines) = 1),
                                   a, "v1")>>) : a \in RefAttrsVariants}
    \cup {RefManifest(<<RefPeriod(0, d, RefAttrs, "v2")>>) :
             d \in {x \in RefDescs(style, ts) : x.first = 0}}
    \cup {[RefManifest(<<RefPeriod(0, d, RefAttrs, "v1")>>)
               EXCEPT !.periods[1].audios[1].id = "a2",
                      !.periods[1].subtitles[1].id = "s2"] :
             d \in {x \in RefDescs(style, ts) : x.first = 0}}
    \cup {RefManifest(<<RefPeriod(0, d, RefAttrs, "v1"),
                        RefPeriod(4, d, RefAttrs, "v1")>>) :
             d \in {x \in RefDescs(style, ts) : x.first = 0}}
    \cup {RefManifest(<<RefPeriod(4, d, RefAttrs, "v1")>>) :
             d \in {x \in RefDescs(style, ts) : x.first = 0}}
    \cup {[RefManifest(<<>>) EXCEPT !.status = "open_failed"],
          [RefManifest(<<>>) EXCEPT !.status = "unreadable"],
          [RefManifest(<<>>) EXCEPT !.status = "unreadable", !.location = "moved"],
          RefManifest(<<>>)}

\* The representation as dash_read_header leaves it, with cur_seq_no where
\* the reader is.
RefOpened(rep, cx, cur) ==
    LET r == [rep EXCEPT !.last_seq_no = calc_max_seg_no(rep, cx, 0)]
    IN  set_representation_period(
            cx, [r EXCEPT !.cur_seq_no = cur, !.ctx = TRUE,
                          !.init_loaded = (rep.init_section # NoFragment)])

RefSaved(cx) ==
    [videos |-> cx.videos, audios |-> cx.audios, subtitles |-> cx.subtitles,
     base_url |-> cx.base_url]

InitRefresh ==
    /\ \E style \in {"timeline", "list"}, ts \in 1 .. RefMaxTimescale,
          kind \in {"video", "audio", "subtitle"} :
          /\ style = "list" => ts = 1
          /\ \E d \in {x \in RefDescs(style, ts) : x.first = 0},
                off \in 0 .. RefMaxSeq :
                LET m0 == RefManifest(<<RefPeriod(0, d, RefAttrs, "v1")>>)
                    p == parse_manifest([ZeroContext EXCEPT !.is_live = TRUE], m0, 0)
                    last_no == calc_max_seg_no(p.c.videos[1], p.c, 0)
                    open(r) == RefOpened(r, p.c,
                                         IF r.kind = kind THEN r.first_seq_no + off
                                         ELSE r.first_seq_no)
                IN  /\ d.first + off <= last_no + 1
                    /\ c = [p.c EXCEPT !.videos = <<open(p.c.videos[1])>>,
                                       !.audios = <<open(p.c.audios[1])>>,
                                       !.subtitles = <<open(p.c.subtitles[1])>>]
                    /\ net = [style |-> style, ts |-> ts,
                              driver |-> [kind |-> kind, i |-> 1],
                              loaded |-> m0, detached |-> FALSE,
                              refreshes |-> 0]
                    /\ last = [op |-> "open", ret |-> RetOk,
                               pre |-> RefSaved(ZeroContext),
                               same_period |-> TRUE,
                               offered |-> [ok |-> TRUE, has_id |-> TRUE],
                               unchanged |-> FALSE, prev_unchanged |-> FALSE,
                               cur_before |-> d.first + off,
                               cur_before_prev |-> d.first + off]
    /\ fn = 0

\* The representation being read.
RefDriver == RepList(c, net.driver.kind)[net.driver.i]

\* One refresh_manifest(s, driver) against the document m.  When the refresh
\* returns without restoring the lists the driver is no longer in them, and
\* the model stops there.  The record says of m whether it is a document
\* with periods and whether it has a representation of the driver's kind
\* with the driver's id.
Refresh ==
    /\ ~net.detached
    /\ net.refreshes < RefMaxRefreshes
    /\ RefDriver.cur_seq_no \in -RefMaxSeq .. RefMaxSeq
    /\ \E m \in RefManifests(net.style, net.ts) :
          \E r \in {refresh_manifest(c, net.driver.kind, net.driver.i, m, 0)} :
              /\ c' = r.c
              /\ net' = [net EXCEPT
                            !.refreshes = @ + 1,
                            !.loaded = IF r.ret = RetOk THEN m ELSE @,
                            !.detached =
                                r.ret # RetOk
                                /\ FindById(RepList(r.c, net.driver.kind),
                                            RefDriver.id) = 0]
              /\ last' = [op |-> "refresh", ret |-> r.ret,
                          pre |-> RefSaved(c),
                          same_period |-> r.c.period_start = c.period_start,
                          offered |->
                              [ok |-> m.status = "ok" /\ Len(m.periods) > 0,
                               has_id |->
                                   \E k \in 1 .. Len(m.periods) :
                                       FindById(RepList(m.periods[k], net.driver.kind),
                                                RefDriver.id) # 0],
                          unchanged |-> (r.ret = RetOk /\ m = net.loaded),
                          prev_unchanged |-> last.unchanged,
                          cur_before |-> RefDriver.cur_seq_no,
                          cur_before_prev |-> last.cur_before]
    /\ UNCHANGED fn

NextRefresh == Refresh

SpecRefresh == InitRefresh /\ [][NextRefresh]_vars

(***************************************************************************)
(* The compatibility check of the refresh on its own: a live presentation  *)
(* is open with some media attributes, present or absent, and each step is *)
(* one refresh_manifest against a document that differs from it in its     *)
(* attributes only.                                                        *)
(***************************************************************************)

\* The attributes a Representation element may carry: those of RefAttrs,
\* one of them changed, or one of them absent (codecs and scanType are then
\* NULL and the frame rate 0/0, as parse_manifest_representation leaves
\* them).
CompatAttrs ==
    RefAttrsVariants
    \cup {[RefAttrs EXCEPT !.codecs = NoString],
          [RefAttrs EXCEPT !.scantype = NoString],
          [RefAttrs EXCEPT !.framerate = [num |-> 0, den |-> 0]],
          [RefAttrs EXCEPT !.acodecs = NoString]}

CompatManifest(attrs) ==
    RefManifest(<<RefPeriod(0, RefTimelineDesc(1, 0, 0), attrs, "v1")>>)

InitCompat ==
    /\ \E kind \in {"video", "audio", "subtitle"}, a \in CompatAttrs :
          \E p \in {parse_manifest([ZeroContext EXCEPT !.is_live = TRUE],
                                   CompatManifest(a), 0)} :
             /\ c = [p.c EXCEPT
                        !.videos = <<RefOpened(p.c.videos[1], p.c, 0)>>,
                        !.audios = <<RefOpened(p.c.audios[1], p.c, 0)>>,
                        !.subtitles = <<RefOpened(p.c.subtitles[1], p.c, 0)>>]
             /\ net = [driver |-> [kind |-> kind, i |-> 1]]
    /\ last = [op |-> "open", ret |-> RetOk, before |-> ZeroRep, shadow |-> ZeroRep]
    /\ fn = 0

\* One refresh_manifest(s, driver); the record keeps the driver as it was
\* and its match in the new document.
RefreshCompat ==
    /\ \E a \in CompatAttrs :
          \E r \in {refresh_manifest(c, net.driver.kind, net.driver.i,
                                     CompatManifest(a), 0)} :
             /\ c' = r.c
             /\ last' = [op |-> "refresh", ret |-> r.ret,
                         before |-> RepList(c, net.driver.kind)[net.driver.i],
                         shadow |-> RepList(CompatManifest(a).periods[1],
                                            net.driver.kind)[1]]
    /\ UNCHANGED <<net, fn>>

NextCompat == RefreshCompat

SpecCompat == InitCompat /\ [][NextCompat]_vars

\* The attributes the compatibility check is about differ between two
\* representations of one kind; an attribute absent on both sides does not
\* differ.
CompatDiffers(a, b) ==
    IF a.kind = "video"
    THEN \/ a.width # b.width \/ a.height # b.height
         \/ a.framerate # b.framerate
         \/ a.codecs # b.codecs \/ a.scantype # b.scantype
    ELSE a.kind = "audio" /\ a.codecs # b.codecs

\* C21: a live refresh returns AVERROR_INPUT_CHANGED if and only if a video
\* width, height, frame rate, codecs or scan type, or an audio codecs,
\* differs between the live representation and its match in the new
\* manifest; absent on both sides is not a difference.
C21_InputChangedIffAttributeDiffers ==
    last.op = "refresh" =>
        ((last.ret = AVERROR_INPUT_CHANGED)
             <=> CompatDiffers(last.before, last.shadow))

(***************************************************************************)
(* Properties of the sequencer functions (checked under SpecFn).           *)
(***************************************************************************)

\* The end of the timeline's entries 1..i when each is walked in order.
RECURSIVE FnEndOf(_, _)
FnEndOf(tl, i) ==
    IF i = 0 THEN 0
    ELSE (IF tl[i].starttime > 0 THEN tl[i].starttime ELSE FnEndOf(tl, i - 1))
         + tl[i].duration * (tl[i].repeat + 1)

\* Every entry has an explicit repeat count and a positive duration, and
\* none starts before the end of the entry before it.
FnForward(tl) ==
    \A i \in 1 .. Len(tl) :
        /\ tl[i].repeat >= 0
        /\ tl[i].duration > 0
        /\ tl[i].starttime > 0 => tl[i].starttime >= FnEndOf(tl, i - 1)

\* C9 as stated: calc_next_seg_no_from_timelines(r, start_time(r, N)) returns
\* N for every valid N.
C9_RoundTripReturnsN ==
    fn.call.op = "round_trip" => fn.call.res = fn.call.arg

\* C9 amended: on a timeline whose entries have repeat >= 0 and a positive
\* duration and never start before the end of the entry before them, with
\* use_timeline_segment_offset_correction on, and for every valid N:
\* calc_next_seg_no_from_timelines returns N for the tick before N's start
\* time, and for N's start time itself it returns the segment after N
\* (N + 1, or -1 when N is last_seq_no).
C9_RoundTripTickBefore ==
    (/\ fn.call.op = "round_trip"
     /\ c.use_timeline_segment_offset_correction
     /\ FnForward(fn.pls.timelines))
    => /\ fn.call.res1 = fn.call.arg
       /\ fn.call.res = IF fn.call.arg < fn.pls.last_seq_no
                        THEN fn.call.arg + 1 ELSE -1

\* C9 witness: the round trip applied past a discontinuity of a forward
\* timeline whose first sequence number is not 0.
C9_Witness ==
    /\ fn.call.op = "round_trip"
    /\ c.use_timeline_segment_offset_correction
    /\ FnForward(fn.pls.timelines)
    /\ Len(fn.pls.timelines) = 2
    /\ fn.pls.timelines[2].starttime > FnEndOf(fn.pls.timelines, 1)
    /\ fn.pls.first_seq_no > 0
    /\ fn.call.arg = fn.pls.last_seq_no
    /\ fn.call.res1 = fn.call.arg

(***************************************************************************)
(* Properties of the live refresh, checked under SpecRefresh.              *)
(***************************************************************************)

\* The driver as it was before the last refresh.
RefDriverBefore == last.pre[net.driver.kind \o "s"][net.driver.i]

RefStartTime(rep) ==
    get_segment_start_time_based_on_timeline(c, rep, rep.cur_seq_no)

\* C4: after a successful refresh of a timeline-style representation with
\* compatible media in the same period, the segment the new cur_seq_no
\* points to in the new timeline starts no earlier than the segment the old
\* cur_seq_no pointed to in the old timeline, for every timescale.
C4_RefreshStartTimeMonotone ==
    (/\ last.op = "refresh" /\ last.ret = RetOk /\ last.same_period
     /\ net.style = "timeline" /\ net.driver.kind # "subtitle")
    => RefStartTime(RefDriver) >= RefStartTime(RefDriverBefore)

\* The lists with the media attributes left out: what stays of a snapshot
\* when the attributes move_video_params and move_audio_params write are
\* not looked at.
RefWithoutAttrs(saved) ==
    LET strip(reps) ==
            [k \in 1 .. Len(reps) |->
                [reps[k] EXCEPT !.codecs = NoString, !.scantype = NoString,
                                !.width = 0, !.height = 0,
                                !.framerate = [num |-> 0, den |-> 0]]]
    IN  [videos |-> strip(saved.videos), audios |-> strip(saved.audios),
         subtitles |-> strip(saved.subtitles), base_url |-> saved.base_url]

\* C5: whenever refresh_manifest returns an error, the videos, audios and
\* subtitles lists and base_url are the pre-refresh snapshot: the same
\* representations, the same counts, none replaced by a shadow.  (The media
\* attributes of the representations are compared by C6.)
C5_RefreshErrorRestoresSnapshot ==
    (last.op = "refresh" /\ last.ret # RetOk)
    => RefWithoutAttrs(RefSaved(c)) = RefWithoutAttrs(last.pre)

\* C6: when a refresh returns input-changed, every field of the live
\* representation equals its pre-refresh value.
C6_InputChangedLeavesRepUntouched ==
    (last.op = "refresh" /\ last.ret = AVERROR_INPUT_CHANGED)
    => RefDriver = RefDriverBefore

\* C10: two refreshes in a row against the manifest already loaded leave
\* the cur_seq_no of every representation at its value before the first of
\* the two.
C10_RefreshTwiceIdempotent ==
    (last.op = "refresh" /\ last.unchanged /\ last.prev_unchanged)
    => /\ RefDriver.cur_seq_no = last.cur_before_prev
       /\ \A kind \in {"video", "audio", "subtitle"} :
             \A k \in 1 .. Len(RepList(c, kind)) :
                [kind |-> kind, i |-> k] # net.driver
                => RepList(c, kind)[k].cur_seq_no
                       = last.pre[kind \o "s"][k].cur_seq_no

(***************************************************************************)
(* The byte stream of one representation of an on-demand presentation.     *)
(*                                                                         *)
(* srv is the server: init_len is the length of every init section,        *)
(* seg_len the length of every media segment, and segs the set of segment  *)
(* numbers it holds.  A byte is named by the resource it comes from and    *)
(* its offset in it.  The template URL of segment n is ToString(n).        *)
(***************************************************************************)
Byte(url, off) == [url |-> url, off |-> off]

\* The length of the resource behind url, or -1 when the server has none.
ResourceSize(srv, url) ==
    IF url = NoString THEN -1
    ELSE IF url \in srv.inits THEN srv.init_len
    ELSE IF \E n \in srv.segs : ToString(n) = url THEN srv.seg_len
    ELSE -1

\* The server's reads of the resource behind url fail (avio_read returns an
\* error): url is one of the segments in srv.broken.
ReadFails(srv, url) == \E n \in srv.broken : ToString(n) = url

\* get_current_fragment when the presentation is not live (the branches
\* under c->is_live are not taken): the fragment to open, or NoFragment.
get_current_fragment(pls, cx) ==
    IF /\ ~cx.interrupt_callback
       /\ Len(pls.fragments) > 0 /\ pls.cur_seq_no < Len(pls.fragments)
    THEN pls.fragments[pls.cur_seq_no + 1]
    ELSE IF pls.cur_seq_no <= pls.last_seq_no
    THEN [url |-> IF Len(pls.fragments) > 0 THEN NoString
                  ELSE ToString(pls.cur_seq_no),
          url_offset |-> 0, size |-> -1]
    ELSE NoFragment

\* [ret, pls, seg]: seg->size becomes the size the server reports, the
\* handle is open when the resource exists.
open_input(srv, pls, seg) ==
    Bind(ResourceSize(srv, seg.url), LAMBDA size :
        [ret |-> IF size >= 0 THEN RetOk ELSE AVERROR_EIO,
         seg |-> [seg EXCEPT !.size = size],
         pls |-> [pls EXCEPT !.input = (size >= 0),
                             !.cur_seg_offset = 0,
                             !.cur_seg_size = size]])

\* A read_from_url that leaves cur_seg_offset where it was.
read_from_url_no_advance(srv, pls, seg, buf_size) ==
    LET limit == IF seg.size >= 0
                 THEN Min(buf_size, pls.cur_seg_size - pls.cur_seg_offset)
                 ELSE buf_size
        left == ResourceSize(srv, seg.url) - pls.cur_seg_offset
    IN  Bind(IF ReadFails(srv, seg.url) THEN -1 ELSE Max(0, Min(limit, left)),
             LAMBDA n :
            [n |-> n,
             data |-> [k \in 1 .. n |-> Byte(seg.url, pls.cur_seg_offset + k - 1)],
             pls |-> pls])

\* [n, data, pls]: n > 0 bytes read from the open handle at cur_seg_offset,
\* n = 0 at the end of the resource, or n < 0 when the read fails.
read_from_url(srv, pls, seg, buf_size) ==
    LET limit == IF seg.size >= 0
                 THEN Min(buf_size, pls.cur_seg_size - pls.cur_seg_offset)
                 ELSE buf_size
        left == ResourceSize(srv, seg.url) - pls.cur_seg_offset
    IN  Bind(IF ReadFails(srv, seg.url) THEN -1 ELSE Max(0, Min(limit, left)),
             LAMBDA n :
            [n |-> n,
             data |-> [k \in 1 .. n |-> Byte(seg.url, pls.cur_seg_offset + k - 1)],
             pls |-> IF n > 0 THEN [pls EXCEPT !.cur_seg_offset = @ + n]
                     ELSE pls])

\* [ret, pls, opens]: opens lists the URLs open_input was called with.
update_init_section(srv, pls) ==
    IF pls.init_section = NoFragment \/ pls.init_loaded
    THEN [ret |-> RetOk, pls |-> pls, opens |-> <<>>]
    ELSE
    Bind(open_input(srv, pls, pls.init_section), LAMBDA o :
    Bind([o.pls EXCEPT !.init_section = o.seg], LAMBDA p1 :
        IF o.ret # RetOk
        THEN [ret |-> o.ret, pls |-> p1, opens |-> <<pls.init_section.url>>]
        ELSE
        Bind(Max(p1.init_sec_buf_size, o.seg.size), LAMBDA buf_size :
        Bind(read_from_url(srv, p1, o.seg, buf_size), LAMBDA r :
            [ret |-> RetOk,
             pls |-> [r.pls EXCEPT !.input = FALSE,
                                   !.init_sec_buf = r.data,
                                   !.init_sec_buf_size = buf_size,
                                   !.init_sec_data_len = r.n,
                                   !.init_sec_buf_read_offset = 0,
                                   !.init_loaded = TRUE],
             opens |-> <<pls.init_section.url>>]))))

\* The part of read_data under the label restart (lines 2152-2190), run
\* until a segment is open or the call ends: [ret, pls, opens], ret being
\* RetOk when the function goes on to line 2192.
RECURSIVE ReadDataOpen(_, _, _, _)
ReadDataOpen(srv, cx, v, opens) ==
    IF v.input THEN [ret |-> RetOk, pls |-> v, opens |-> opens]
    ELSE
    Bind(get_current_fragment(v, cx), LAMBDA seg :
        IF seg = NoFragment
        THEN [ret |-> AVERROR_EOF, pls |-> [v EXCEPT !.cur_seg = seg],
              opens |-> opens]
        ELSE
        Bind(update_init_section(srv, [v EXCEPT !.cur_seg = seg]), LAMBDA u :
            IF u.ret # RetOk
            THEN \* goto restart with nothing changed: the call returns
                 \* once the interrupt callback reports true
                 [ret |-> AVERROR_EXIT, pls |-> u.pls, opens |-> opens \o u.opens]
            ELSE
            Bind(open_input(srv, u.pls, seg), LAMBDA o :
            Bind([o.pls EXCEPT !.cur_seg = o.seg], LAMBDA v2 :
            Bind(opens \o u.opens \o <<seg.url>>, LAMBDA opens2 :
                IF o.ret # RetOk /\ cx.interrupt_callback
                THEN [ret |-> AVERROR_EXIT, pls |-> v2, opens |-> opens2]
                ELSE IF o.ret # RetOk
                THEN ReadDataOpen(
                         srv, cx,
                         IF cx.is_live THEN v2
                         ELSE [v2 EXCEPT !.cur_seq_no = @ + 1],
                         opens2)
                ELSE [ret |-> RetOk, pls |-> v2, opens |-> opens2])))))

\* A read_data that advances cur_seq_no at every read that ends the segment.
read_data_advance_every_time(srv, cx, v, buf_size) ==
    Bind(ReadDataOpen(srv, cx, v, <<>>), LAMBDA o :
    Bind(o.pls, LAMBDA p :
        IF o.ret # RetOk
        THEN [ret |-> o.ret, data |-> <<>>, pls |-> p, opens |-> o.opens]
        ELSE IF p.init_sec_buf_read_offset < p.init_sec_data_len
        THEN Bind(Min(p.init_sec_data_len - p.init_sec_buf_read_offset, buf_size),
                  LAMBDA copy_size :
                 [ret |-> RetOk,
                  data |-> SubSeq(p.init_sec_buf, 1, copy_size),
                  pls |-> [p EXCEPT !.init_sec_buf_read_offset = @ + copy_size],
                  opens |-> o.opens])
        ELSE
        Bind(read_from_url(srv, p, p.cur_seg, buf_size), LAMBDA r :
            IF r.n > 0
            THEN [ret |-> RetOk, data |-> r.data, pls |-> r.pls, opens |-> o.opens]
            ELSE [ret |-> IF r.n < 0 THEN AVERROR_EIO ELSE AVERROR_EOF,
                  data |-> <<>>,
                  pls |-> IF cx.is_live \/ p.cur_seq_no < p.last_seq_no
                          THEN [p EXCEPT
                                   !.cur_seq_no = @ + 1,
                                   !.is_restart_needed = TRUE]
                          ELSE p,
                  opens |-> o.opens])))

\* read_data(v, buf, buf_size): [ret, data, pls, opens]; data are the bytes
\* written to buf, ret is RetOk when there are some.  cur_seg is set
\* whenever the handle is open, so lines 2202-2211 do nothing.
read_data(srv, cx, v, buf_size) ==
    Bind(ReadDataOpen(srv, cx, v, <<>>), LAMBDA o :
    Bind(o.pls, LAMBDA p :
        IF o.ret # RetOk
        THEN [ret |-> o.ret, data |-> <<>>, pls |-> p, opens |-> o.opens]
        ELSE IF p.init_sec_buf_read_offset < p.init_sec_data_len
        THEN Bind(Min(p.init_sec_data_len - p.init_sec_buf_read_offset, buf_size),
                  LAMBDA copy_size :
                 [ret |-> RetOk,
                  data |-> SubSeq(p.init_sec_buf, 1, copy_size),
                  pls |-> [p EXCEPT !.init_sec_buf_read_offset = @ + copy_size],
                  opens |-> o.opens])
        ELSE
        Bind(read_from_url(srv, p, p.cur_seg, buf_size), LAMBDA r :
            IF r.n > 0
            THEN [ret |-> RetOk, data |-> r.data, pls |-> r.pls, opens |-> o.opens]
            ELSE [ret |-> IF r.n < 0 THEN AVERROR_EIO ELSE AVERROR_EOF,
                  data |-> <<>>,
                  pls |-> IF cx.is_live \/ p.cur_seq_no < p.last_seq_no
                          THEN [p EXCEPT
                                   !.cur_seq_no =
                                       IF p.is_restart_needed THEN @ ELSE @ + 1,
                                   !.is_restart_needed = TRUE]
                          ELSE p,
                  opens |-> o.opens])))

(***************************************************************************)
(* The inner parser of a representation reads its bytes through read_data. *)
(* A stream st pairs the representation pls with what the outside sees of  *)
(* it: out, the first bytes read_data returned since the parser was last   *)
(* (re)opened; and, for the operation under way, init_opens, how many      *)
(* times it opened its init section, segs, the media URLs it asked the     *)
(* server for, and reads, what each read_data call that returned bytes     *)
(* did to the offsets.                                                     *)
(***************************************************************************)
ZeroIo == [out |-> <<>>, init_opens |-> 0, segs |-> {}, reads |-> {}]

\* What a read_data call that returned the bytes data did: v is the
\* representation before the call and p after it.
ReadRecord(srv, v, p, data) ==
    [n |-> Len(data),
     from_init |-> data[1].url \in srv.inits,
     offset_before |-> v.cur_seg_offset, offset_after |-> p.cur_seg_offset,
     init_before |-> v.init_sec_buf_read_offset,
     init_after |-> p.init_sec_buf_read_offset]

\* The first n elements of s.
Take(s, n) == SubSeq(s, 1, Min(n, Len(s)))

\* One read_data call made by the inner parser, with a buffer of buf_size
\* bytes; fresh tells that the parser has just been (re)opened.
StreamRead(srv, cx, st, buf_size, fresh) ==
    Bind(read_data(srv, cx, st.pls, buf_size), LAMBDA r :
    Bind({k \in 1 .. Len(r.opens) : r.opens[k] \in srv.inits}, LAMBDA inits :
        [ret |-> r.ret, data |-> r.data,
         st |-> [pls |-> r.pls,
                 io |-> [out |-> Take((IF fresh THEN <<>> ELSE st.io.out) \o r.data,
                                      srv.init_len + 1),
                         init_opens |-> st.io.init_opens + Cardinality(inits),
                         segs |-> st.io.segs
                                  \cup {r.opens[k] :
                                           k \in (1 .. Len(r.opens)) \ inits},
                         reads |-> IF Len(r.data) = 0 THEN st.io.reads
                                   ELSE st.io.reads
                                        \cup {ReadRecord(srv, st.pls, r.pls,
                                                         r.data)}]]]))

\* reopen_demux_for_component: the old parser is closed, and a new one
\* probes the stream with one read of buf_size bytes; [ret, st].
reopen_demux_for_component(srv, cx, st, buf_size) ==
    IF cx.interrupt_callback
    THEN [ret |-> AVERROR_EXIT, st |-> [st EXCEPT !.pls.ctx = FALSE]]
    ELSE
    Bind(StreamRead(srv, cx, [st EXCEPT !.pls.ctx = FALSE], buf_size, TRUE),
         LAMBDA r :
        IF r.ret # RetOk
        THEN [ret |-> AVERROR_INVALIDDATA, st |-> r.st]
        ELSE [ret |-> RetOk, st |-> [r.st EXCEPT !.pls.ctx = TRUE]])

\* calc_cur_seg_no when the presentation is not live.
calc_cur_seg_no(pls, cx) == pls.first_seq_no

open_demux_for_component(srv, cx, st, buf_size) ==
    Bind([st.pls EXCEPT !.cur_seq_no = calc_cur_seg_no(st.pls, cx)], LAMBDA p1 :
    Bind(IF p1.last_seq_no = 0
         THEN [p1 EXCEPT !.last_seq_no = calc_max_seg_no(p1, cx, 0)]
         ELSE p1, LAMBDA p2 :
        reopen_demux_for_component(srv, cx, [st EXCEPT !.pls = p2], buf_size)))

\* Every representation of the list has an init section (the loop reads
\* pls[i]->init_section->url); URLs are written in lower case.
is_common_init_section_exist(pls) ==
    IF Len(pls) = 0 THEN FALSE
    ELSE IF pls[1].init_section = NoFragment THEN FALSE
    ELSE \A k \in 1 .. Len(pls) :
            /\ pls[k].init_section.url = pls[1].init_section.url
            /\ pls[k].init_section.url_offset = pls[1].init_section.url_offset
            /\ pls[k].init_section.size = pls[1].init_section.size

copy_init_section(rep_dest, rep_src) ==
    [rep_dest EXCEPT !.init_sec_buf = Take(rep_src.init_sec_buf,
                                           rep_src.init_sec_data_len),
                     !.init_sec_buf_size = rep_src.init_sec_buf_size,
                     !.init_sec_data_len = rep_src.init_sec_data_len,
                     !.cur_timestamp = rep_src.cur_timestamp]

(***************************************************************************)
(* The demuxer.  w is the world the demuxer works on: c, the DASHContext,  *)
(* and io, which gives for every representation of c what the outside      *)
(* sees of its stream.                                                     *)
(***************************************************************************)
Kinds == <<"video", "audio", "subtitle">>

ListName(kind) == kind \o "s"

Stream(w, kind, i) == [pls |-> w.c[ListName(kind)][i], io |-> w.io[ListName(kind)][i]]

SetStream(w, kind, i, st) ==
    [c |-> [w.c EXCEPT ![ListName(kind)][i] = st.pls],
     io |-> [w.io EXCEPT ![ListName(kind)][i] = st.io]]

\* The loop of dash_read_header over one list (lines 2452-2465), from its
\* i-th representation on: [ret, w].
RECURSIVE OpenList(_, _, _, _, _, _)
OpenList(srv, w, kind, common, i, buf_size) ==
    IF i > Len(w.c[ListName(kind)]) THEN [ret |-> RetOk, w |-> w]
    ELSE
    Bind(Stream(w, kind, i), LAMBDA st :
    Bind(IF i > 1 /\ common
         THEN [st EXCEPT !.pls = copy_init_section(@, w.c[ListName(kind)][1])]
         ELSE st, LAMBDA st1 :
    Bind(open_demux_for_component(srv, w.c, st1, buf_size), LAMBDA o :
    Bind(SetStream(w, kind, i, o.st), LAMBDA w1 :
        IF o.ret # RetOk THEN [ret |-> o.ret, w |-> w1]
        ELSE OpenList(srv, w1, kind, common, i + 1, buf_size)))))

dash_close(w) ==
    [c |-> [w.c EXCEPT !.videos = <<>>, !.audios = <<>>, !.subtitles = <<>>,
                       !.base_url = NoString],
     io |-> w.io]

\* is_common_init_section_exist of a list when it is not empty, else the
\* flag as it stands.
CommonInit(reps, flag) ==
    IF Len(reps) > 0 THEN is_common_init_section_exist(reps) ELSE flag

\* set_representation_period for every representation of the lists.
SetPeriods(w) ==
    LET period(reps) ==
            [k \in 1 .. Len(reps) |-> set_representation_period(w.c, reps[k])]
    IN  [w EXCEPT !.c.videos = period(@),
                  !.c.audios = period(@),
                  !.c.subtitles = period(@)]

\* dash_read_header: m is the manifest document behind s->pb and buf_size
\* the size of the reads the inner parsers probe with.  [ret, w].
dash_read_header(srv, w, m, buf_size) ==
    Bind(parse_manifest(w.c, m, 0), LAMBDA p :
        IF p.ret # RetOk THEN [ret |-> p.ret, w |-> dash_close([w EXCEPT !.c = p.c])]
        ELSE
        Bind([c |-> p.c,
              io |-> [videos |-> [k \in 1 .. Len(p.c.videos) |-> ZeroIo],
                      audios |-> [k \in 1 .. Len(p.c.audios) |-> ZeroIo],
                      subtitles |-> [k \in 1 .. Len(p.c.subtitles) |-> ZeroIo]]],
             LAMBDA w0 :
        Bind(CommonInit(w0.c.videos, w0.c.is_init_section_common_video), LAMBDA cv :
        Bind(OpenList(srv, [w0 EXCEPT !.c.is_init_section_common_video = cv],
                      "video", cv, 1, buf_size), LAMBDA wv :
            IF wv.ret # RetOk THEN [ret |-> wv.ret, w |-> dash_close(wv.w)]
            ELSE
        Bind(CommonInit(wv.w.c.audios, wv.w.c.is_init_section_common_audio),
             LAMBDA ca :
        Bind(OpenList(srv, [wv.w EXCEPT !.c.is_init_section_common_audio = ca],
                      "audio", ca, 1, buf_size), LAMBDA wa :
            IF wa.ret # RetOk THEN [ret |-> wa.ret, w |-> dash_close(wa.w)]
            ELSE
        Bind(CommonInit(wa.w.c.subtitles, wa.w.c.is_init_section_common_audio),
             LAMBDA cs :
        Bind(OpenList(srv, [wa.w EXCEPT !.c.is_init_section_common_audio = cs],
                      "subtitle", cs, 1, buf_size), LAMBDA ws :
            IF ws.ret # RetOk THEN [ret |-> ws.ret, w |-> dash_close(ws.w)]
            ELSE IF Len(p.c.videos) + Len(p.c.audios) + Len(p.c.subtitles) = 0
            THEN [ret |-> AVERROR_INVALIDDATA, w |-> dash_close(ws.w)]
            ELSE [ret |-> RetOk, w |-> SetPeriods(ws.w)]))))))))

\* The catch-up loop of recheck_discard_flags (lines 2573-2575).
RECURSIVE CatchUp(_, _, _)
CatchUp(p, j, cur_seq_no) ==
    IF j > Len(p) THEN cur_seq_no
    ELSE CatchUp(p, j + 1, Max(cur_seq_no, p[j].cur_seq_no))

\* recheck_discard_flags over the list kind, from its i-th representation
\* on.
RECURSIVE recheck_discard_flags(_, _, _, _, _)
recheck_discard_flags(srv, w, kind, i, buf_size) ==
    IF i > Len(w.c[ListName(kind)]) THEN w
    ELSE
    Bind(Stream(w, kind, i), LAMBDA st :
    Bind(IF ~st.pls.discard /\ ~st.pls.ctx
         THEN reopen_demux_for_component(
                  srv, w.c,
                  [st EXCEPT
                      !.pls.cur_seg_offset = 0,
                      !.pls.init_sec_buf_read_offset = 0,
                      !.pls.cur_seq_no =
                          CatchUp(w.c[ListName(kind)], 1, st.pls.cur_seq_no)],
                  buf_size).st
         ELSE IF st.pls.discard /\ st.pls.ctx
         THEN [st EXCEPT !.pls.ctx = FALSE, !.pls.input = FALSE]
         ELSE st, LAMBDA st1 :
    Bind(SetStream(w, kind, i, st1), LAMBDA w1 :
        recheck_discard_flags(srv, w1, kind, i + 1, buf_size))))

(***************************************************************************)
(* dash_read_packet.                                                       *)
(***************************************************************************)
NoCur == [kind |-> "none", i |-> 0]

\* One of the three selection loops (lines 2602-2632) over the list kind,
\* from its i-th representation on; sel is [cur, mseg, mints].
RECURSIVE SelectInList(_, _, _, _)
SelectInList(cx, kind, i, sel) ==
    IF i > Len(cx[ListName(kind)]) THEN sel
    ELSE
    Bind(cx[ListName(kind)][i], LAMBDA rep :
    Bind(IF rep.ctx /\ (\/ sel.cur = NoCur
                        \/ rep.cur_seq_no < sel.mseg
                        \/ (rep.cur_seq_no = sel.mseg
                            /\ rep.cur_timestamp < sel.mints))
         THEN [cur |-> [kind |-> kind, i |-> i],
               mseg |-> rep.cur_seq_no, mints |-> rep.cur_timestamp]
         ELSE sel, LAMBDA sel1 :
        SelectInList(cx, kind, i + 1, sel1)))

\* A selection that compares the sequence numbers only.
RECURSIVE SelectInList_no_timestamp(_, _, _, _)
SelectInList_no_timestamp(cx, kind, i, sel) ==
    IF i > Len(cx[ListName(kind)]) THEN sel
    ELSE
    Bind(cx[ListName(kind)][i], LAMBDA rep :
    Bind(IF rep.ctx /\ (sel.cur = NoCur \/ rep.cur_seq_no < sel.mseg)
         THEN [cur |-> [kind |-> kind, i |-> i],
               mseg |-> rep.cur_seq_no, mints |-> rep.cur_timestamp]
         ELSE sel, LAMBDA sel1 :
        SelectInList_no_timestamp(cx, kind, i + 1, sel1)))

SelectCur_no_timestamp(cx) ==
    Bind(SelectInList_no_timestamp(cx, "video", 1,
                                   [cur |-> NoCur, mseg |-> 0, mints |-> 0]),
         LAMBDA v :
    Bind(SelectInList_no_timestamp(cx, "audio", 1, v), LAMBDA a :
        SelectInList_no_timestamp(cx, "subtitle", 1, a).cur))

\* The representation dash_read_packet reads from, or NoCur.
SelectCur(cx) ==
    Bind(SelectInList(cx, "video", 1, [cur |-> NoCur, mseg |-> 0, mints |-> 0]),
         LAMBDA v :
    Bind(SelectInList(cx, "audio", 1, v), LAMBDA a :
        SelectInList(cx, "subtitle", 1, a).cur))

\* The packets of the media are stamped with the position of their last
\* byte in the presentation, in units of 1/90000 s.
PacketPts(srv, pls) == pls.cur_seq_no * srv.seg_len + pls.cur_seg_offset

\* av_read_frame on the inner parser: it reads until it has bytes of a
\* media segment to make a packet of, or until read_data fails.  [ret, st].
RECURSIVE av_read_frame(_, _, _, _)
av_read_frame(srv, cx, st, buf_size) ==
    Bind(StreamRead(srv, cx, st, buf_size, FALSE), LAMBDA r :
        IF r.ret # RetOk THEN [ret |-> r.ret, st |-> r.st]
        ELSE IF \E k \in 1 .. Len(r.data) : r.data[k].url \notin srv.inits
        THEN [ret |-> RetOk, st |-> r.st]
        ELSE av_read_frame(srv, cx, r.st, buf_size))

\* The while loop of lines 2637-2670 on the selected stream: [ret, st].
RECURSIVE ReadPacketLoop(_, _, _, _)
ReadPacketLoop(srv, cx, st, buf_size) ==
    IF cx.interrupt_callback THEN [ret |-> RetOk, st |-> st]
    ELSE
    Bind(av_read_frame(srv, cx, st, buf_size), LAMBDA f :
        IF f.ret = RetOk
        THEN [ret |-> RetOk,
              st |-> [f.st EXCEPT !.pls.cur_timestamp = PacketPts(srv, f.st.pls)]]
        ELSE IF f.st.pls.is_restart_needed
        THEN Bind(reopen_demux_for_component(
                      srv, cx,
                      [f.st EXCEPT !.pls.cur_seg_offset = 0,
                                   !.pls.init_sec_buf_read_offset = 0,
                                   !.pls.input = FALSE],
                      buf_size), LAMBDA o :
             Bind([o.st EXCEPT !.pls.is_restart_needed = FALSE], LAMBDA st1 :
                 IF o.ret = RetOk THEN ReadPacketLoop(srv, cx, st1, buf_size)
                 ELSE [ret |-> o.ret, st |-> st1]))
        ELSE [ret |-> f.ret, st |-> f.st])

\* [ret, w, cur, seen]: cur is the representation selected and seen the
\* context as the selection loops saw it.
dash_read_packet(srv, w, buf_size) ==
    Bind(recheck_discard_flags(srv, w, "video", 1, buf_size), LAMBDA wv :
    Bind(recheck_discard_flags(srv, wv, "audio", 1, buf_size), LAMBDA wa :
    Bind(recheck_discard_flags(srv, wa, "subtitle", 1, buf_size), LAMBDA w1 :
    Bind(SelectCur(w1.c), LAMBDA cur :
        IF cur = NoCur
        THEN [ret |-> AVERROR_INVALIDDATA, w |-> w1, cur |-> cur, seen |-> w1.c]
        ELSE
        Bind(ReadPacketLoop(srv, w1.c, Stream(w1, cur.kind, cur.i), buf_size),
             LAMBDA r :
            [ret |-> r.ret, w |-> SetStream(w1, cur.kind, cur.i, r.st),
             cur |-> cur, seen |-> w1.c])))))

(***************************************************************************)
(* Seeking.                                                                *)
(***************************************************************************)

\* The inner for loop of the timeline branch of dash_seek (lines 2721-2727).
RECURSIVE SeekRepeat(_, _, _, _, _, _)
SeekRepeat(pls, e, j, duration, num, seek_pos_msec) ==
    IF j >= e.repeat THEN [found |-> FALSE, duration |-> duration, num |-> num]
    ELSE Bind(duration + e.duration, LAMBDA d1 :
             IF seek_pos_msec < CDiv(d1 * 1000, pls.fragment_timescale)
             THEN [found |-> TRUE, duration |-> d1, num |-> num + 1]
             ELSE SeekRepeat(pls, e, j + 1, d1, num + 1, seek_pos_msec))

\* The outer for loop (lines 2713-2729): the value of num at set_seq_num.
RECURSIVE SeekWalk(_, _, _, _, _)
SeekWalk(pls, i, duration, num, seek_pos_msec) ==
    IF i > Len(pls.timelines) THEN num
    ELSE
    Bind(pls.timelines[i], LAMBDA e :
    Bind((IF e.starttime > 0 THEN e.starttime ELSE duration) + e.duration,
         LAMBDA d1 :
        IF seek_pos_msec < CDiv(d1 * 1000, pls.fragment_timescale) THEN num
        ELSE Bind(SeekRepeat(pls, e, 0, d1, num, seek_pos_msec), LAMBDA r :
                 IF r.found THEN r.num
                 ELSE SeekWalk(pls, i + 1, r.duration, r.num + 1, seek_pos_msec))))

\* The sequence number dash_seek moves to (lines 2708-2740).
SeekSeqNo(pls, seek_pos_msec) ==
    IF Len(pls.timelines) > 0 /\ pls.fragment_timescale > 0
    THEN Bind(SeekWalk(pls, 1, 0, pls.first_seq_no, seek_pos_msec), LAMBDA num :
             IF num > pls.last_seq_no THEN pls.last_seq_no ELSE num)
    ELSE IF pls.fragment_duration > 0
    THEN pls.first_seq_no
         + CDiv(CDiv(seek_pos_msec * pls.fragment_timescale,
                     pls.fragment_duration), 1000)
    ELSE pls.first_seq_no

\* dash_seek(s, pls, seek_pos_msec, flags, dry_run): [ret, st].
dash_seek(srv, cx, st, seek_pos_msec, dry_run, buf_size) ==
    IF Len(st.pls.fragments) = 1
    THEN \* single fragment mode: the inner parser seeks in the fragment
         [ret |-> RetOk,
          st |-> [st EXCEPT !.pls.cur_timestamp = 0, !.pls.cur_seg_offset = 0]]
    ELSE
    Bind([st EXCEPT !.pls.input = FALSE,
                    !.pls.cur_seq_no = SeekSeqNo(st.pls, seek_pos_msec),
                    !.pls.cur_timestamp = 0,
                    !.pls.cur_seg_offset = 0,
                    !.pls.init_sec_buf_read_offset = 0], LAMBDA st1 :
        IF dry_run THEN [ret |-> RetOk, st |-> st1]
        ELSE reopen_demux_for_component(srv, cx, st1, buf_size))

\* The loop of dash_read_seek over one list, from its i-th representation
\* on; ret is the result so far.  [ret, w].
RECURSIVE SeekList(_, _, _, _, _, _, _)
SeekList(srv, w, kind, i, ret, seek_pos_msec, buf_size) ==
    IF i > Len(w.c[ListName(kind)]) THEN [ret |-> ret, w |-> w]
    ELSE IF ret # RetOk
    THEN SeekList(srv, w, kind, i + 1, ret, seek_pos_msec, buf_size)
    ELSE
    Bind(Stream(w, kind, i), LAMBDA st :
    Bind(dash_seek(srv, w.c, st, seek_pos_msec, ~st.pls.ctx, buf_size), LAMBDA r :
    Bind(SetStream(w, kind, i, r.st), LAMBDA w1 :
        SeekList(srv, w1, kind, i + 1, r.ret, seek_pos_msec, buf_size))))

\* A dash_read_seek that seeks whatever the flags and the presentation.
dash_read_seek_any(srv, w, seek_pos_msec, byte, buf_size) ==
    Bind(SeekList(srv, w, "video", 1, RetOk, seek_pos_msec, buf_size), LAMBDA v :
    Bind(SeekList(srv, v.w, "audio", 1, v.ret, seek_pos_msec, buf_size), LAMBDA a :
        SeekList(srv, a.w, "subtitle", 1, a.ret, seek_pos_msec, buf_size)))

\* dash_read_seek with the stream's time base in milliseconds, so that
\* seek_pos_msec is the timestamp asked for; byte is AVSEEK_FLAG_BYTE.
dash_read_seek(srv, w, seek_pos_msec, byte, buf_size) ==
    IF byte \/ w.c.is_live THEN [ret |-> AVERROR_ENOSYS, w |-> w]
    ELSE
    Bind(SeekList(srv, w, "video", 1, RetOk, seek_pos_msec, buf_size), LAMBDA v :
    Bind(SeekList(srv, v.w, "audio", 1, v.ret, seek_pos_msec, buf_size), LAMBDA a :
        SeekList(srv, a.w, "subtitle", 1, a.ret, seek_pos_msec, buf_size)))

(***************************************************************************)
(* The demuxer at work on an on-demand presentation: the manifest and the  *)
(* server are drawn, the consumer opens the presentation, and then reads   *)
(* packets, seeks, and discards or takes back streams.                     *)
(***************************************************************************)
DemuxMaxBuf == 3
DemuxInitLen == 3
DemuxSegLen == 2
DemuxDuration == 6

DemuxBufSizes == 1 .. DemuxMaxBuf

\* Timestamps the consumer seeks to, in milliseconds.
SeekPositions == {0, 2500, 11000}

DemuxTemplateDesc(first, duration, timescale) ==
    [style |-> "template", first |-> first, duration |-> duration,
     timescale |-> timescale]

\* A static manifest of one period; n_videos video representations and
\* n_others audio and subtitle representations, all alike.
DemuxManifest(desc, duration, n_videos, n_others) ==
    [status |-> "ok", location |-> "mpd", is_live |-> FALSE,
     media_presentation_duration |-> duration,
     periods |-> <<[start |-> 0, duration |-> 0,
                    videos |-> [k \in 1 .. n_videos |->
                                   ParsedRep("video", "v" \o ToString(k),
                                             RefAttrs, desc)],
                    audios |-> [k \in 1 .. n_others |->
                                   ParsedRep("audio", "a" \o ToString(k),
                                             RefAttrs, desc)],
                    subtitles |-> [k \in 1 .. n_others |->
                                      ParsedRep("subtitle", "s" \o ToString(k),
                                                RefAttrs, desc)]]>>]

\* The presentations: a manifest, the segment numbers the server holds, the
\* buffer sizes the inner parsers read with and the positions the consumer
\* seeks to.  The template ones hold
\* the duration * timescale / d segments that the manifest's duration spans.
DemuxLayouts ==
    {[manifest |-> DemuxManifest(DemuxTemplateDesc(1, 2, 1), DemuxDuration, 1, 0),
      segs |-> 1 .. (DemuxDuration \div 2), bufs |-> DemuxBufSizes,
      seeks |-> SeekPositions],
     [manifest |-> DemuxManifest(DemuxTemplateDesc(1, 2, 1), 20, 1, 0),
      segs |-> 1 .. 10, bufs |-> {DemuxMaxBuf}, seeks |-> SeekPositions],
     [manifest |-> DemuxManifest(DemuxTemplateDesc(0, 1, 1), DemuxDuration \div 3, 2, 0),
      segs |-> 0 .. (DemuxDuration \div 3 - 1), bufs |-> {DemuxMaxBuf},
      seeks |-> SeekPositions],
     [manifest |-> DemuxManifest(DemuxTemplateDesc(0, 1, 1), DemuxDuration \div 3, 1, 1),
      segs |-> 0 .. (DemuxDuration \div 3 - 1), bufs |-> {DemuxMaxBuf},
      seeks |-> {0}],
     [manifest |-> DemuxManifest(
                       [style |-> "timeline", first |-> 1, timescale |-> 1,
                        timelines |-> <<S(0, 2, DemuxDuration \div 2 - 1)>>],
                       DemuxDuration, 1, 0),
      segs |-> 1 .. (DemuxDuration \div 2), bufs |-> DemuxBufSizes,
      seeks |-> SeekPositions]}

DemuxSrv == [inits |-> {"init"}, init_len |-> DemuxInitLen,
             seg_len |-> DemuxSegLen, segs |-> net.segs, broken |-> net.broken]

DemuxWorld == [c |-> c, io |-> net.io]

AllStreams(w) ==
    {<<kind, k>> \in {"video", "audio", "subtitle"} \X (1 .. 2) :
        k <= Len(w.c[ListName(kind)])}

\* What stays of io between two operations: the counts are those of one
\* operation.
KeepOut(io) ==
    LET keep(ios) == [k \in 1 .. Len(ios) |->
                         [ios[k] EXCEPT !.init_opens = 0, !.segs = {},
                                          !.reads = {}]]
    IN  [videos |-> keep(io.videos), audios |-> keep(io.audios),
         subtitles |-> keep(io.subtitles)]

\* The record of an operation: its result, the representation it read
\* from, the (cur_seq_no, cur_timestamp) keys of the representations with
\* an open parser in the context seen by the selection, and what the
\* operation asked the server for (in the world w it leaves), and what
\* the interrupt callback reported while it ran.
DemuxLast(op, ret, cur, seen, w) ==
    [op |-> op, ret |-> ret, cur |-> cur,
     interrupted |-> seen.interrupt_callback,
     open |-> {[kind |-> x[1], i |-> x[2],
                cur_seq_no |-> seen[ListName(x[1])][x[2]].cur_seq_no,
                cur_timestamp |-> seen[ListName(x[1])][x[2]].cur_timestamp] :
               x \in {y \in AllStreams([c |-> seen]) : seen[ListName(y[1])][y[2]].ctx}},
     init_opens |-> [kind \in {"video", "audio", "subtitle"} |->
                        LET ios == w.io[ListName(kind)]
                        IN  (IF Len(ios) >= 1 THEN ios[1].init_opens ELSE 0)
                            + (IF Len(ios) >= 2 THEN ios[2].init_opens ELSE 0)],
     segs |-> UNION {w.io[ListName(x[1])][x[2]].segs : x \in AllStreams(w)},
     reads |-> UNION {w.io[ListName(x[1])][x[2]].reads : x \in AllStreams(w)}]

Init ==
    /\ c = ZeroContext
    /\ \E l \in DemuxLayouts :
          net = [manifest |-> l.manifest, segs |-> l.segs, broken |-> {},
                 bufs |-> l.bufs, seeks |-> l.seeks,
                 opened |-> FALSE,
                 io |-> [videos |-> <<>>, audios |-> <<>>, subtitles |-> <<>>]]
    /\ last = DemuxLast("none", RetOk, NoCur, ZeroContext, DemuxWorld)
    /\ fn = 0

\* avformat_open_input on the presentation: dash_read_header.
Open ==
    /\ ~net.opened
    /\ \E b \in net.bufs :
          \E r \in {dash_read_header(DemuxSrv, DemuxWorld, net.manifest, b)} :
             /\ c' = r.w.c
             /\ net' = [net EXCEPT !.opened = TRUE, !.io = KeepOut(r.w.io)]
             /\ last' = DemuxLast("open", r.ret, NoCur, ZeroContext, r.w)
    /\ UNCHANGED fn

\* av_read_frame on the presentation: dash_read_packet.  intr is what the
\* application's interrupt callback reports for the length of the call.
ReadPacket ==
    /\ net.opened
    /\ \E b \in net.bufs, intr \in BOOLEAN :
          \E r \in {dash_read_packet(
                        DemuxSrv,
                        [DemuxWorld EXCEPT !.c.interrupt_callback = intr], b)} :
             /\ c' = [r.w.c EXCEPT !.interrupt_callback = FALSE]
             /\ net' = [net EXCEPT !.io = KeepOut(r.w.io)]
             /\ last' = DemuxLast("read_packet", r.ret, r.cur, r.seen, r.w)
    /\ UNCHANGED fn

\* av_seek_frame on the presentation: dash_read_seek; the record says
\* whether the seek was by byte position.
Seek ==
    /\ net.opened
    /\ \E pos \in net.seeks, byte \in BOOLEAN, b \in net.bufs :
          \E r \in {dash_read_seek(DemuxSrv, DemuxWorld, pos, byte, b)} :
             /\ c' = r.w.c
             /\ net' = [net EXCEPT !.io = KeepOut(r.w.io)]
             /\ last' = DemuxLast(IF byte THEN "seek_byte" ELSE "seek",
                                  r.ret, NoCur, ZeroContext, r.w)
    /\ UNCHANGED fn

\* The consumer sets or clears AVDISCARD_ALL on the stream of one
\* representation.
SetDiscard ==
    /\ net.opened
    /\ \E n \in 1 .. 3 :
          \E k \in 1 .. Len(c[ListName(Kinds[n])]) :
             c' = [c EXCEPT ![ListName(Kinds[n])][k].discard = ~@]
    /\ last' = DemuxLast("discard", RetOk, NoCur, ZeroContext, DemuxWorld)
    /\ UNCHANGED <<net, fn>>

Next == Open \/ ReadPacket \/ Seek \/ SetDiscard

Spec == Init /\ [][Next]_vars

(***************************************************************************)
(* The same consumer on a presentation of two video representations with   *)
(* segment lists and no init sections, where the server's reads of one of  *)
(* the segments fail.                                                      *)
(***************************************************************************)
InitBroken ==
    /\ c = ZeroContext
    /\ \E b \in 1 .. (DemuxDuration \div 2) - 1 :
          net = [manifest |-> DemuxManifest(
                                  [style |-> "list", first |-> 0,
                                   n |-> DemuxDuration \div 2],
                                  DemuxDuration, 2, 0),
                 segs |-> 0 .. (DemuxDuration \div 2) - 1, broken |-> {b},
                 bufs |-> {DemuxMaxBuf}, seeks |-> {0},
                 opened |-> FALSE,
                 io |-> [videos |-> <<>>, audios |-> <<>>, subtitles |-> <<>>]]
    /\ last = DemuxLast("none", RetOk, NoCur, ZeroContext, DemuxWorld)
    /\ fn = 0

SpecBroken == InitBroken /\ [][Next]_vars

(***************************************************************************)
(* read_data step by step: the inner parser of one representation of an   *)
(* on-demand presentation calls read_data again and again, and each pass   *)
(* through the label restart is a step of its own.  The server holds some  *)
(* of the segments and may not hold the init section; the application may  *)
(* raise its interrupt at any moment.                                      *)
(***************************************************************************)

\* One pass from the label restart to the next goto restart, to line 2192
\* or to the label end (lines 2152-2190): [next, ret, pls], next being
\* "restart", "copy" or "end".
ReadDataRestart(srv, cx, v) ==
    IF v.input THEN [next |-> "copy", ret |-> RetOk, pls |-> v]
    ELSE
    Bind(get_current_fragment(v, cx), LAMBDA seg :
        IF seg = NoFragment
        THEN [next |-> "end", ret |-> AVERROR_EOF,
              pls |-> [v EXCEPT !.cur_seg = seg]]
        ELSE
        Bind(update_init_section(srv, [v EXCEPT !.cur_seg = seg]), LAMBDA u :
            IF u.ret # RetOk
            THEN IF cx.interrupt_callback
                 THEN [next |-> "end", ret |-> AVERROR_EXIT, pls |-> u.pls]
                 ELSE [next |-> "restart", ret |-> u.ret, pls |-> u.pls]
            ELSE
            Bind(open_input(srv, u.pls, seg), LAMBDA o :
            Bind([o.pls EXCEPT !.cur_seg = o.seg], LAMBDA v2 :
                IF o.ret = RetOk
                THEN [next |-> "copy", ret |-> RetOk, pls |-> v2]
                ELSE IF cx.interrupt_callback
                THEN [next |-> "end", ret |-> AVERROR_EXIT, pls |-> v2]
                ELSE [next |-> "restart", ret |-> o.ret,
                      pls |-> IF cx.is_live THEN v2
                              ELSE [v2 EXCEPT !.cur_seq_no = @ + 1]]))))

\* What the server may hold of the presentation.
ReadServers ==
    {[inits |-> i, init_len |-> DemuxInitLen, seg_len |-> DemuxSegLen,
      segs |-> s, broken |-> b] :
        i \in {{}, {"init"}}, s \in SUBSET (1 .. (DemuxDuration \div 2)),
        b \in {{}, {2}}}

\* The representation as open_demux_for_component sets it up before the
\* parser's first read.
ReadOpened(rep, cx) ==
    Bind([rep EXCEPT !.cur_seq_no = calc_cur_seg_no(rep, cx)], LAMBDA p1 :
        [p1 EXCEPT !.last_seq_no = calc_max_seg_no(p1, cx, 0)])

InitRead ==
    /\ \E p \in {parse_manifest(
                     ZeroContext,
                     DemuxManifest(DemuxTemplateDesc(1, 2, 1), DemuxDuration, 1, 0),
                     0)} :
          c = [p.c EXCEPT !.videos[1] = ReadOpened(@, p.c)]
    /\ net \in ReadServers
    /\ last = [op |-> "none", ret |-> RetOk, n |-> 0]
    /\ fn = [pc |-> "idle", buf_size |-> 0, passes |-> 0]

\* The parser calls read_data(v, buf, buf_size).
ReadCall ==
    /\ fn.pc = "idle"
    /\ \E b \in DemuxBufSizes :
          fn' = [pc |-> "restart", buf_size |-> b, passes |-> 0]
    /\ UNCHANGED <<c, net, last>>

\* The call is at the label restart; passes is the parity of the number
\* of passes the call has made through it.
ReadRestart ==
    /\ fn.pc = "restart"
    /\ \E r \in {ReadDataRestart(net, c, c.videos[1])} :
          /\ c' = [c EXCEPT !.videos[1] = r.pls]
          /\ fn' = [fn EXCEPT !.pc = IF r.next = "end" THEN "idle" ELSE r.next,
                               !.passes = (@ + 1) % 2]
          /\ last' = IF r.next = "end"
                     THEN [op |-> "read_data", ret |-> r.ret, n |-> 0]
                     ELSE last
    /\ UNCHANGED net

\* The call is at line 2192, the segment open: it returns bytes of the
\* init section or of the segment, or the end of the segment.
ReadCopy ==
    /\ fn.pc = "copy"
    /\ \E r \in {read_data(net, c, c.videos[1], fn.buf_size)} :
          /\ c' = [c EXCEPT !.videos[1] = r.pls]
          /\ last' = [op |-> "read_data", ret |-> r.ret, n |-> Len(r.data)]
    /\ fn' = [fn EXCEPT !.pc = "idle"]
    /\ UNCHANGED net

\* Between two calls: the segment has ended and dash_read_packet closes
\* the input for the parser to be opened on the next segment (lines
\* 2663-2668).
ReadReopen ==
    /\ fn.pc = "idle"
    /\ c.videos[1].is_restart_needed
    /\ c' = [c EXCEPT !.videos[1].cur_seg_offset = 0,
                      !.videos[1].init_sec_buf_read_offset = 0,
                      !.videos[1].input = FALSE,
                      !.videos[1].is_restart_needed = FALSE]
    /\ UNCHANGED <<net, last, fn>>

\* The application raises its interrupt: from now on the callback reports
\* true.
Interrupt ==
    /\ ~c.interrupt_callback
    /\ c' = [c EXCEPT !.interrupt_callback = TRUE]
    /\ UNCHANGED <<net, last, fn>>

NextRead == ReadCall \/ ReadRestart \/ ReadCopy \/ ReadReopen \/ Interrupt

\* A call of read_data under way goes on running; the application is free
\* never to interrupt.
SpecRead ==
    InitRead /\ [][NextRead]_vars /\ WF_vars(ReadRestart) /\ WF_vars(ReadCopy)

\* C17: in an on-demand presentation a call of read_data always returns,
\* also when the server has none of the segments or no init section.
C17_ReadTerminates == (fn.pc = "restart") ~> (fn.pc = "idle")

(***************************************************************************)
(* The sequencer of one representation step by step, live or on demand:    *)
(* the inner parser of the video representation calls read_data again and  *)
(* again, and a call is followed from the label restart through            *)
(* get_current_fragment, where each refresh_manifest is a step of its own  *)
(* against the document the server returns at that moment, to the opening  *)
(* of the segment and the read.  The server lacks one of the segments or   *)
(* fails the reads of one; the wall clock advances between steps.          *)
(***************************************************************************)
LiveMaxSeq == 3
LiveMaxTicks == 1
LiveMaxRefreshes == 4
LiveDepth == 2

\* calc_cur_seg_no when the presentation is live, with publishTime and
\* presentationTimeOffset absent (lines 1491-1521).  The sequence number
\* 0xFFFFFFFF of line 1498, past the end of every timeline, is written as
\* the largest number of the checker.
calc_cur_seg_no_live(pls, cx, now) ==
    IF Len(pls.fragments) > 0 THEN pls.first_seq_no
    ELSE IF Len(pls.timelines) > 0
    THEN Bind(get_segment_start_time_based_on_timeline(cx, pls, 2147483647)
                  - 60 * pls.fragment_timescale,
              LAMBDA start_time_offset :
         Bind(calc_next_seg_no_from_timelines(cx, pls, start_time_offset),
              LAMBDA num :
             IF num = -1 THEN pls.first_seq_no
             ELSE IF ~cx.use_timeline_segment_offset_correction
             THEN num + pls.first_seq_no
             ELSE num))
    ELSE IF pls.fragment_duration # 0
    THEN Bind(pls.first_seq_no
                  + CDiv((now - cx.availability_start_time
                              - cx.suggested_presentation_delay)
                             * pls.fragment_timescale,
                         pls.fragment_duration),
              LAMBDA num :
             IF /\ num > pls.first_seq_no
                /\ cx.suggested_presentation_delay = 0
                /\ cx.fetch_completed_segments_only
             THEN num - 1 ELSE num)
    ELSE 0

calc_min_seg_no(pls, cx, now) ==
    IF cx.is_live /\ pls.fragment_duration # 0
    THEN Bind(pls.first_seq_no
                  + CDiv((now - cx.availability_start_time
                              - cx.time_shift_buffer_depth)
                             * pls.fragment_timescale,
                         pls.fragment_duration),
              LAMBDA num :
             IF /\ num > pls.first_seq_no
                /\ cx.time_shift_buffer_depth = 0
                /\ cx.fetch_completed_segments_only
             THEN num - 1 ELSE num)
    ELSE pls.first_seq_no

\* Where get_current_fragment stands when it stops for a refresh or
\* returns: next is "refresh_list" (line 1943), "refresh_live" (line 1955),
\* "refresh_wait" (line 1970) or "open" (it returns seg); min and max are
\* its min_seq_no and max_seq_no.
GetFragmentAt(next, pls, seg, min, max) ==
    [next |-> next, pls |-> pls, seg |-> seg, min |-> min, max |-> max]

\* Lines 1978-2009: the fragment of the template.
GetFragmentTemplate(pls, min, max) ==
    GetFragmentAt("open", pls,
                  [url |-> IF Len(pls.fragments) > 0 THEN NoString
                           ELSE ToString(pls.cur_seq_no),
                   url_offset |-> 0, size |-> -1],
                  min, max)

\* The head of the loop of lines 1967-1976.
GetFragmentWait(pls, cx, min, max) ==
    IF ~cx.interrupt_callback /\ pls.cur_seq_no > max
    THEN GetFragmentAt("refresh_wait", pls, NoFragment, min, max)
    ELSE GetFragmentTemplate(pls, min, max)

\* Lines 1960-1977, after the refresh of line 1955.
GetFragmentAdjust(pls, cx, now, min, max) ==
    IF pls.cur_seq_no <= min
    THEN GetFragmentTemplate(
             [pls EXCEPT !.cur_seq_no = calc_cur_seg_no_live(pls, cx, now)],
             min, max)
    ELSE IF /\ pls.cur_seq_no > max
            /\ (Len(pls.timelines) > 0 \/ Len(pls.fragments) > 0)
    THEN GetFragmentWait(pls, cx, min, max)
    ELSE GetFragmentTemplate(pls, min, max)

\* A get_current_fragment whose first refresh is made only with cur_seq_no
\* outside the window.
GetFragmentTail_refresh_outside_window(pls, cx, now) ==
    IF cx.is_live
    THEN Bind(calc_min_seg_no(pls, cx, now), LAMBDA min :
         Bind(calc_max_seg_no(pls, cx, now), LAMBDA max :
             IF /\ Len(pls.timelines) > 0 \/ Len(pls.fragments) > 0
                /\ (pls.cur_seq_no > max \/ pls.cur_seq_no < min)
             THEN GetFragmentAt("refresh_live", pls, NoFragment, min, max)
             ELSE GetFragmentAdjust(pls, cx, now, min, max)))
    ELSE IF pls.cur_seq_no <= pls.last_seq_no
    THEN GetFragmentTemplate(pls, 0, 0)
    ELSE GetFragmentAt("open", pls, NoFragment, 0, 0)

\* Lines 1950-1983, from the end of the first loop.
GetFragmentTail(pls, cx, now) ==
    IF cx.is_live
    THEN Bind(calc_min_seg_no(pls, cx, now), LAMBDA min :
         Bind(calc_max_seg_no(pls, cx, now), LAMBDA max :
             IF Len(pls.timelines) > 0 \/ Len(pls.fragments) > 0
             THEN GetFragmentAt("refresh_live", pls, NoFragment, min, max)
             ELSE GetFragmentAdjust(pls, cx, now, min, max)))
    ELSE IF pls.cur_seq_no <= pls.last_seq_no
    THEN GetFragmentTemplate(pls, 0, 0)
    ELSE GetFragmentAt("open", pls, NoFragment, 0, 0)

\* The head of the loop of lines 1925-1949.
GetFragmentList(pls, cx, now) ==
    IF ~cx.interrupt_callback /\ Len(pls.fragments) > 0
    THEN IF pls.cur_seq_no < Len(pls.fragments)
         THEN GetFragmentAt("open", pls, pls.fragments[pls.cur_seq_no + 1], 0, 0)
         ELSE IF cx.is_live
         THEN GetFragmentAt("refresh_list", pls, NoFragment, 0, 0)
         ELSE GetFragmentTail(pls, cx, now)
    ELSE GetFragmentTail(pls, cx, now)

\* read_data with the failed open of a segment counted against cur_seq_no
\* in a live presentation too.
ReadDataOpenSegment_always_advance(srv, cx, v, seg) ==
    IF seg = NoFragment
    THEN [next |-> "end", ret |-> AVERROR_EOF, pls |-> [v EXCEPT !.cur_seg = seg]]
    ELSE
    Bind(update_init_section(srv, [v EXCEPT !.cur_seg = seg]), LAMBDA u :
        IF u.ret # RetOk
        THEN IF cx.interrupt_callback
             THEN [next |-> "end", ret |-> AVERROR_EXIT, pls |-> u.pls]
             ELSE [next |-> "restart", ret |-> u.ret, pls |-> u.pls]
        ELSE
        Bind(open_input(srv, u.pls, seg), LAMBDA o :
        Bind([o.pls EXCEPT !.cur_seg = o.seg], LAMBDA v2 :
            IF o.ret = RetOk
            THEN [next |-> "copy", ret |-> RetOk, pls |-> v2]
            ELSE IF cx.interrupt_callback
            THEN [next |-> "end", ret |-> AVERROR_EXIT, pls |-> v2]
            ELSE [next |-> "restart", ret |-> o.ret,
                  pls |-> [v2 EXCEPT !.cur_seq_no = @ + 1]])))

\* Lines 2157-2189 of read_data, get_current_fragment having returned seg:
\* [next, ret, pls], next being "restart", "copy" or "end".
ReadDataOpenSegment(srv, cx, v, seg) ==
    IF seg = NoFragment
    THEN [next |-> "end", ret |-> AVERROR_EOF, pls |-> [v EXCEPT !.cur_seg = seg]]
    ELSE
    Bind(update_init_section(srv, [v EXCEPT !.cur_seg = seg]), LAMBDA u :
        IF u.ret # RetOk
        THEN IF cx.interrupt_callback
             THEN [next |-> "end", ret |-> AVERROR_EXIT, pls |-> u.pls]
             ELSE [next |-> "restart", ret |-> u.ret, pls |-> u.pls]
        ELSE
        Bind(open_input(srv, u.pls, seg), LAMBDA o :
        Bind([o.pls EXCEPT !.cur_seg = o.seg], LAMBDA v2 :
            IF o.ret = RetOk
            THEN [next |-> "copy", ret |-> RetOk, pls |-> v2]
            ELSE IF cx.interrupt_callback
            THEN [next |-> "end", ret |-> AVERROR_EXIT, pls |-> v2]
            ELSE [next |-> "restart", ret |-> o.ret,
                  pls |-> IF cx.is_live THEN v2
                          ELSE [v2 EXCEPT !.cur_seq_no = @ + 1]])))

\* The segment descriptors of the presentations.
LiveDescs ==
    {RefTimelineDesc(1, 0, 0), RefListDesc(0, 0), DemuxTemplateDesc(0, 1, 1)}

\* The documents the server may return to a refresh.
LiveManifests(style) ==
    IF style = "template" THEN {}
    ELSE {RefManifest(<<RefPeriod(0, d, RefAttrs, "v1")>>) :
              d \in RefDescs(style, 1)}
         \cup {[RefManifest(<<>>) EXCEPT !.status = "open_failed"]}

\* The representation as open_demux_for_component sets it up before the
\* parser's first read.
LiveOpened(rep, cx, now) ==
    Bind([rep EXCEPT !.cur_seq_no = IF cx.is_live
                                    THEN calc_cur_seg_no_live(rep, cx, now)
                                    ELSE calc_cur_seg_no(rep, cx)],
         LAMBDA p1 :
        set_representation_period(
            cx, [p1 EXCEPT !.last_seq_no = calc_max_seg_no(p1, cx, now)]))

LiveNone ==
    [op |-> "none", ret |-> RetOk, n |-> 0, site |-> "none",
     cur |-> 0, min |-> 0, max |-> 0, n_fragments |-> 0]

\* The clock starts where the time-shift buffer is full.
InitLive ==
    /\ \E d \in LiveDescs, live \in BOOLEAN, missing \in {{}, {1}},
          broken \in {{}, {1}} :
          /\ \E p \in {parse_manifest(
                           ZeroContext,
                           [RefManifest(<<RefPeriod(0, d, RefAttrs, "v1")>>)
                               EXCEPT !.is_live = live,
                                      !.media_presentation_duration =
                                          IF live THEN 0 ELSE LiveDepth],
                           0)} :
                \E cx \in {[p.c EXCEPT !.time_shift_buffer_depth =
                                           IF live THEN LiveDepth ELSE 0]} :
                    c = [cx EXCEPT !.videos[1] = LiveOpened(@, cx, LiveDepth)]
          /\ net = [inits |-> {"init"}, init_len |-> DemuxInitLen,
                    seg_len |-> DemuxSegLen,
                    segs |-> (0 .. LiveMaxSeq) \ missing, broken |-> broken,
                    style |-> d.style, now |-> LiveDepth, refreshes |-> 0]
    /\ last = LiveNone
    /\ fn = [pc |-> "idle", seg |-> NoFragment, min |-> 0, max |-> 0]

\* get_current_fragment has stopped at g, or returned.
LiveAt(g) ==
    /\ fn' = [pc |-> g.next, seg |-> g.seg, min |-> g.min, max |-> g.max]
    /\ c' = [c EXCEPT !.videos[1] = g.pls]

\* The parser calls read_data(v, buf, DemuxSegLen): with the input open it
\* goes to line 2192, else it is at the label restart.
LiveCall ==
    /\ fn.pc = "idle"
    /\ fn' = [fn EXCEPT !.pc = IF c.videos[1].input THEN "copy" ELSE "restart"]
    /\ UNCHANGED <<c, net, last>>

\* The call is at the label restart, the input closed: it goes into
\* get_current_fragment (lines 2152-2155).
LiveRestart ==
    /\ fn.pc = "restart"
    /\ LiveAt(GetFragmentList(c.videos[1], c, net.now))
    /\ UNCHANGED <<net, last>>

\* One refresh_manifest of get_current_fragment; when it fails the call of
\* read_data returns its error.
LiveRefresh ==
    /\ fn.pc \in {"refresh_list", "refresh_live", "refresh_wait"}
    /\ net.refreshes < LiveMaxRefreshes
    /\ \E m \in LiveManifests(net.style) :
          \E r \in {refresh_manifest(c, "video", 1, m, net.now)} :
              /\ last' = [op |-> "refresh", ret |-> r.ret, n |-> 0,
                          site |-> fn.pc, cur |-> c.videos[1].cur_seq_no,
                          n_fragments |-> Len(c.videos[1].fragments),
                          min |-> IF fn.pc = "refresh_list"
                                  THEN calc_min_seg_no(c.videos[1], c, net.now)
                                  ELSE fn.min,
                          max |-> IF fn.pc = "refresh_list"
                                  THEN calc_max_seg_no(c.videos[1], c, net.now)
                                  ELSE fn.max]
              /\ IF r.ret # RetOk
                 THEN /\ c' = r.c
                      /\ fn' = [fn EXCEPT !.pc = "idle"]
                 ELSE \E g \in {IF fn.pc = "refresh_list"
                                THEN GetFragmentList(r.c.videos[1], r.c, net.now)
                                ELSE IF fn.pc = "refresh_live"
                                THEN GetFragmentAdjust(r.c.videos[1], r.c, net.now,
                                                       fn.min, fn.max)
                                ELSE GetFragmentWait(
                                         r.c.videos[1], r.c, fn.min,
                                         calc_max_seg_no(r.c.videos[1], r.c,
                                                         net.now))} :
                          /\ fn' = [pc |-> g.next, seg |-> g.seg,
                                    min |-> g.min, max |-> g.max]
                          /\ c' = [r.c EXCEPT !.videos[1] = g.pls]
    /\ net' = [net EXCEPT !.refreshes = @ + 1]

\* get_current_fragment has returned fn.seg: the init section and the
\* segment are opened, and a failure sends the call back to restart.
LiveOpen ==
    /\ fn.pc = "open"
    /\ \E r \in {ReadDataOpenSegment(net, c, c.videos[1], fn.seg)} :
          /\ c' = [c EXCEPT !.videos[1] = r.pls]
          /\ fn' = [fn EXCEPT !.pc = IF r.next = "end" THEN "idle" ELSE r.next]
          /\ last' = IF r.next = "restart"
                     THEN [LiveNone EXCEPT !.op = "retry", !.ret = r.ret,
                                           !.cur = c.videos[1].cur_seq_no]
                     ELSE IF r.next = "end"
                     THEN [LiveNone EXCEPT !.op = "read_data", !.ret = r.ret]
                     ELSE last
    /\ UNCHANGED net

\* The call is at line 2192, the segment open: it returns bytes of the
\* init section or of the segment, or the end of the segment.
LiveCopy ==
    /\ fn.pc = "copy"
    /\ \E r \in {read_data(net, c, c.videos[1], DemuxSegLen)} :
          /\ c' = [c EXCEPT !.videos[1] = r.pls]
          /\ last' = [LiveNone EXCEPT !.op = "read_data", !.ret = r.ret,
                                      !.n = Len(r.data),
                                      !.cur = c.videos[1].cur_seq_no]
    /\ fn' = [fn EXCEPT !.pc = "idle"]
    /\ UNCHANGED net

\* Between two calls: the segment has ended and dash_read_packet closes
\* the input for the parser to be opened on the next segment (lines
\* 2663-2668).
LiveReopen ==
    /\ fn.pc = "idle"
    /\ c.videos[1].is_restart_needed
    /\ c' = [c EXCEPT !.videos[1].cur_seg_offset = 0,
                      !.videos[1].init_sec_buf_read_offset = 0,
                      !.videos[1].input = FALSE,
                      !.videos[1].is_restart_needed = FALSE]
    /\ last' = [LiveNone EXCEPT !.op = "reopen"]
    /\ UNCHANGED <<net, fn>>

\* A second of wall-clock time passes.
LiveTick ==
    /\ net.now < LiveDepth + LiveMaxTicks
    /\ net' = [net EXCEPT !.now = @ + 1]
    /\ UNCHANGED <<c, last, fn>>

NextLive ==
    \/ LiveCall \/ LiveRestart \/ LiveRefresh \/ LiveOpen \/ LiveCopy
    \/ LiveReopen \/ LiveTick

SpecLive == InitLive /\ [][NextLive]_vars

(***************************************************************************)
(* Properties of the demuxer at work, under Spec.                          *)
(***************************************************************************)

\* The representations of the presentation, as streams.
DemuxStreams == {Stream(DemuxWorld, x[1], x[2]) : x \in AllStreams(DemuxWorld)}

\* C1: for every representation, after any sequence of open, read, restart,
\* seek and enable/disable operations,
\* first_seq_no <= cur_seq_no <= last_seq_no + 1.
C1_CurSeqNoInRange ==
    \A st \in DemuxStreams :
        /\ st.pls.first_seq_no <= st.pls.cur_seq_no
        /\ st.pls.cur_seq_no <= st.pls.last_seq_no + 1

\* C2: on a representation with a loaded init section, the bytes read_data
\* returns since the parser was (re)opened and before the first body byte
\* are init_sec_buf[0 .. init_sec_data_len) in order, each byte once,
\* whatever the sizes of the caller's buffers.
C2_InitBytesInOrder ==
    \A st \in DemuxStreams :
        st.pls.init_loaded =>
            \A k \in 1 .. Min(Len(st.io.out), st.pls.init_sec_data_len) :
                st.io.out[k] = st.pls.init_sec_buf[k]

\* (cur_seq_no, cur_timestamp) of a is lexicographically before that of b.
KeyLess(a, b) ==
    \/ a.cur_seq_no < b.cur_seq_no
    \/ (a.cur_seq_no = b.cur_seq_no /\ a.cur_timestamp < b.cur_timestamp)

\* C3: dash_read_packet reads from a representation with an open parser
\* whose (cur_seq_no, cur_timestamp) is the lexicographic minimum over the
\* representations of the three kinds with an open parser: none of them
\* has a strictly smaller key.  It reads from none only when none is open.
C3_ReadsMinimumKey ==
    last.op = "read_packet" =>
        IF last.cur = NoCur THEN last.open = {} /\ last.ret = AVERROR_INVALIDDATA
        ELSE \E o \in last.open :
                /\ o.kind = last.cur.kind /\ o.i = last.cur.i
                /\ \A p \in last.open : ~KeyLess(p, o)

\* A read from an audio or subtitle representation while a video
\* representation is open on the same segment with a later timestamp.
C3_Witness ==
    /\ last.op = "read_packet"
    /\ last.ret = RetOk
    /\ last.cur.kind # "video"
    /\ \E o \in last.open, p \in last.open :
          /\ o.kind = last.cur.kind /\ o.i = last.cur.i
          /\ p.kind = "video"
          /\ p.cur_seq_no = o.cur_seq_no
          /\ p.cur_timestamp > o.cur_timestamp

\* C7: when the representations of one kind share one init section, open
\* fetches that init section exactly once.
C7_SharedInitFetchedOnce ==
    (last.op = "open" /\ last.ret = RetOk) =>
        \A n \in 1 .. 3 :
            (/\ Len(c[ListName(Kinds[n])]) > 0
             /\ is_common_init_section_exist(c[ListName(Kinds[n])]))
            => last.init_opens[Kinds[n]] = 1

\* A representation addressed by a template with a fixed segment duration.
IsTemplateDuration(pls) ==
    Len(pls.timelines) = 0 /\ Len(pls.fragments) = 0 /\ pls.fragment_duration > 0

\* C8: for an on-demand template representation with start number s,
\* segment duration d, timescale t and presentation duration D, open sets
\* last_seq_no = s + D*t/d - 1 (10 for s=1, d=2, t=1, D=20).
C8_TemplateLastSeqNo ==
    (last.op = "open" /\ last.ret = RetOk) =>
        \A st \in DemuxStreams :
            IsTemplateDuration(st.pls) =>
                st.pls.last_seq_no
                    = st.pls.first_seq_no
                      + (c.media_presentation_duration * st.pls.fragment_timescale)
                            \div st.pls.fragment_duration
                      - 1

\* cur_seg_offset <= cur_seg_size wherever cur_seg_size >= 0.
OffsetWithinSize ==
    \A st \in DemuxStreams :
        st.pls.cur_seg_size >= 0 => st.pls.cur_seg_offset <= st.pls.cur_seg_size

\* C11 as stated: every read_data call that returns n > 0 bytes, those of
\* the init section included, increases cur_seg_offset by exactly n, and
\* cur_seg_offset <= cur_seg_size wherever cur_seg_size >= 0.
C11_EveryReadAdvancesOffset ==
    /\ \A rd \in last.reads : rd.offset_after = rd.offset_before + rd.n
    /\ OffsetWithinSize

\* C11, amended: a read_data call that returns n > 0 bytes of a media
\* segment increases cur_seg_offset by exactly n; one that returns n > 0
\* bytes of the init section leaves cur_seg_offset as it was and increases
\* init_sec_buf_read_offset by n; cur_seg_offset <= cur_seg_size wherever
\* cur_seg_size >= 0.
C11_MediaReadAdvancesOffset ==
    /\ \A rd \in last.reads :
          IF rd.from_init
          THEN /\ rd.offset_after = rd.offset_before
               /\ rd.init_after = rd.init_before + rd.n
          ELSE /\ rd.offset_after = rd.offset_before + rd.n
               /\ rd.init_after = rd.init_before
    /\ OffsetWithinSize

\* An operation in which read_data returned bytes of the init section and
\* then bytes of a media segment.
C11_Witness ==
    /\ \E rd \in last.reads : rd.from_init /\ rd.n > 0
    /\ \E rd \in last.reads : ~rd.from_init /\ rd.n > 0 /\ rd.offset_after > 0
    /\ \E st \in DemuxStreams : st.pls.cur_seg_size >= 0 /\ st.pls.cur_seg_offset > 0

\* The timelines of the driven representation in the document the last
\* successful refresh loaded.
RefLoadedTimelines ==
    LET reps == net.loaded.periods[1][ListName(net.driver.kind)]
    IN  IF Len(net.loaded.periods) = 1 /\ Len(reps) >= net.driver.i
        THEN reps[net.driver.i].timelines ELSE <<>>

\* The loaded document is the old timeline of the driven representation
\* with k more single-segment S entries, same start number, same period.
RefAppended(k) ==
    /\ last.op = "refresh" /\ last.ret = RetOk /\ last.same_period
    /\ net.style = "timeline"
    /\ Len(net.loaded.periods) = 1
    /\ net.loaded.periods[1].start = RefDriverBefore.period_start
    /\ net.loaded.periods[1][ListName(net.driver.kind)][net.driver.i].first_seq_no
           = RefDriverBefore.first_seq_no
    /\ Len(RefLoadedTimelines) = Len(RefDriverBefore.timelines) + k
    /\ SubSeq(RefLoadedTimelines, 1, Len(RefDriverBefore.timelines))
           = RefDriverBefore.timelines
    /\ \A j \in 1 .. k :
          RefLoadedTimelines[Len(RefDriverBefore.timelines) + j].repeat = 0

\* C12: in a live timeline-style representation whose cur_seq_no is at the
\* last known segment, a refresh whose manifest is the old timeline with k
\* more single-segment S entries appended increases last_seq_no by exactly
\* k and leaves cur_seq_no unchanged.
C12_AppendGrowsLastKeepsCur ==
    \A k \in 1 .. RefMaxAppend :
        (RefAppended(k) /\ RefDriverBefore.cur_seq_no = RefDriverBefore.last_seq_no)
        => /\ RefDriver.last_seq_no = RefDriverBefore.last_seq_no + k
           /\ RefDriver.cur_seq_no = RefDriverBefore.cur_seq_no

(***************************************************************************)
(* Properties of the timeline functions, under SpecFn.                     *)
(***************************************************************************)

\* Every entry has a positive duration, and an entry with a start time of
\* its own follows entries with explicit repeat counts only and does not
\* start before the end of the entry before it.
FnOrdered(tl) ==
    \A i \in 1 .. Len(tl) :
        /\ tl[i].duration > 0
        /\ (i > 1 /\ tl[i].starttime > 0)
           => /\ \A j \in 1 .. i - 1 : tl[j].repeat >= 0
              /\ tl[i].starttime >= FnEndOf(tl, i - 1)

\* C13: get_segment_start_time_based_on_timeline is non-decreasing in the
\* sequence number over [first_seq_no, last_seq_no], also on timelines
\* with a repeat = -1 entry after other entries.
C13_StartTimeNonDecreasing ==
    (fn.call.op = "start_time" /\ FnOrdered(fn.pls.timelines))
    => \A M \in FnValid :
          M < fn.call.arg
          => get_segment_start_time_based_on_timeline(c, fn.pls, M) <= fn.call.res

\* C14 as stated: the start time of first_seq_no is timelines[0].starttime,
\* for every first_seq_no >= 0 and both values of
\* use_timeline_segment_offset_correction.
C14_FirstStartsAtFirstEntry ==
    (fn.call.op = "start_time" /\ fn.call.arg = fn.pls.first_seq_no)
    => fn.call.res = fn.pls.timelines[1].starttime

\* C14, amended: the start time of first_seq_no is timelines[0].starttime
\* when use_timeline_segment_offset_correction is on or first_seq_no is 0;
\* with the option off, first_seq_no is not subtracted and the result is
\* the start time that, with the option on, belongs to
\* first_seq_no + first_seq_no.
C14_FirstStartsAtFirstEntryWithCorrection ==
    (fn.call.op = "start_time" /\ fn.call.arg = fn.pls.first_seq_no)
    => IF c.use_timeline_segment_offset_correction \/ fn.pls.first_seq_no = 0
       THEN fn.call.res = fn.pls.timelines[1].starttime
       ELSE fn.call.res
                = get_segment_start_time_based_on_timeline(
                      [c EXCEPT !.use_timeline_segment_offset_correction = TRUE],
                      fn.pls, fn.pls.first_seq_no + fn.pls.first_seq_no)

\* The start time of a first_seq_no > 0 asked for with the option on, on a
\* timeline whose first entry has a start time of its own.
C14_Witness ==
    /\ fn.call.op = "start_time"
    /\ fn.call.arg = fn.pls.first_seq_no
    /\ fn.pls.first_seq_no > 0
    /\ c.use_timeline_segment_offset_correction
    /\ fn.pls.timelines[1].starttime > 0
    /\ fn.call.res = fn.pls.timelines[1].starttime

\* The number of segments the entries 1 .. i of tl describe.
RECURSIVE FnCount(_, _)
FnCount(tl, i) == IF i = 0 THEN 0 ELSE FnCount(tl, i - 1) + tl[i].repeat + 1

\* C15: on a timeline whose repeats are all >= 0, calc_max_seg_no gives a
\* last_seq_no with last_seq_no - first_seq_no + 1 equal to the sum over the
\* entries of (repeat + 1); S(t=0, d=3, r=4) gives 5.
C15_TimelineSegmentCount ==
    (/\ fn.call.op = "max_seg_no"
     /\ \A i \in 1 .. Len(fn.pls.timelines) : fn.pls.timelines[i].repeat >= 0)
    => /\ fn.call.res - fn.pls.first_seq_no + 1
              = FnCount(fn.pls.timelines, Len(fn.pls.timelines))
       /\ fn.call.res = fn.pls.last_seq_no

\* calc_max_seg_no on the single entry S(t=0, d=3, r=4), with a
\* first_seq_no that is not 0: five segments.
C15_Witness ==
    /\ fn.call.op = "max_seg_no"
    /\ fn.pls.timelines = <<S(0, 3, 4)>>
    /\ fn.pls.first_seq_no > 0
    /\ fn.call.res - fn.pls.first_seq_no + 1 = 5

\* The index in the timeline of the segment a start time was asked for.
FnIndex ==
    IF c.use_timeline_segment_offset_correction /\ fn.call.arg >= fn.pls.first_seq_no
    THEN fn.call.arg - fn.pls.first_seq_no
    ELSE fn.call.arg

\* The reference walk: the start of the entry i that holds index k (its own
\* start time when > 0, else the end of the entry before it, 0 for the
\* first) plus the position of k in the entry times the entry's duration.
FnReferenceStart(tl, k) ==
    LET i == CHOOSE x \in 1 .. Len(tl) : FnCount(tl, x - 1) <= k /\ k < FnCount(tl, x)
    IN  (IF tl[i].starttime > 0 THEN tl[i].starttime ELSE FnEndOf(tl, i - 1))
        + (k - FnCount(tl, i - 1)) * tl[i].duration

\* C16: on a timeline whose repeats are all >= 0, the start time returned
\* for the segment of index k within it is that of the reference walk;
\* S(t=0, d=2, r=1), S(t=10, d=2, r=0) gives 0, 2, 10.
C16_StartTimeIsReferenceWalk ==
    (/\ fn.call.op = "start_time"
     /\ \A i \in 1 .. Len(fn.pls.timelines) : fn.pls.timelines[i].repeat >= 0
     /\ FnIndex < FnCount(fn.pls.timelines, Len(fn.pls.timelines)))
    => fn.call.res = FnReferenceStart(fn.pls.timelines, FnIndex)

\* The start time of the segment after the discontinuity of
\* S(t=0, d=2, r=1), S(t=10, d=2, r=0): 10.
C16_Witness ==
    /\ fn.call.op = "start_time"
    /\ fn.pls.timelines = <<S(0, 2, 1), S(10, 2, 0)>>
    /\ FnIndex = 2
    /\ fn.call.res = 10

\* C18: when the interrupt callback reports true during the packet-read
\* loop of dash_read_packet (and the loops of read_data and
\* get_current_fragment under it), the read returns the exit error: it
\* does not return success without a packet, and it asks the server for no
\* further segment.
C18_InterruptAbortsWithExit ==
    (last.op = "read_packet" /\ last.interrupted /\ last.cur # NoCur) =>
        /\ last.ret = AVERROR_EXIT
        /\ last.segs = {}

\* C19: dash_read_seek with the byte-seek flag, or on a live presentation,
\* returns AVERROR(ENOSYS) and leaves every representation as it was
\* (cur_seq_no, cur_timestamp, cur_seg_offset, init_sec_buf_read_offset,
\* the open input and the open parser).  The seeks by byte are those the
\* consumer makes; the live case is dash_read_seek applied, in every state
\* reached, to the context with is_live set.
C19_UnsupportedSeekChangesNothing ==
    /\ [][last'.op = "seek_byte" =>
              /\ last'.ret = AVERROR_ENOSYS
              /\ c' = c
              /\ net' = net]_vars
    /\ [](net.opened =>
              \A pos \in net.seeks, byte \in BOOLEAN, b \in net.bufs :
                  LET live == [DemuxWorld EXCEPT !.c.is_live = TRUE]
                  IN  dash_read_seek(DemuxSrv, live, pos, byte, b)
                          = [ret |-> AVERROR_ENOSYS, w |-> live])

\* A seek by byte was refused on a presentation with a representation in
\* the middle of a segment, past its first segment, its parser open.
C19_Witness ==
    /\ last.op = "seek_byte"
    /\ last.ret = AVERROR_ENOSYS
    /\ \E st \in DemuxStreams :
          /\ st.pls.ctx /\ st.pls.input
          /\ st.pls.cur_seq_no > st.pls.first_seq_no
          /\ st.pls.cur_seg_offset > 0
          /\ st.pls.cur_timestamp > 0

\* The representation of the driver's kind and place in the document the
\* last successful refresh loaded.
RefLoadedRep == RepList(net.loaded.periods[1], net.driver.kind)[net.driver.i]

\* C20: whatever the kind of the representation driving a refresh (video,
\* audio or subtitle), a refresh against a manifest that has no
\* representation of that kind with exactly the driver's id returns
\* AVERROR_INVALIDDATA, and a refresh that succeeds has taken the driver's
\* segments from the representation with its id (for a segment list, the
\* driver has as many segments as that representation).
C20_DriverMatchedById ==
    (last.op = "refresh" /\ last.offered.ok) =>
        IF ~last.offered.has_id THEN last.ret = AVERROR_INVALIDDATA
        ELSE last.ret = RetOk =>
                 /\ RefLoadedRep.id = RefDriver.id
                 /\ Len(RefDriver.fragments) = Len(RefLoadedRep.fragments)

(***************************************************************************)
(* Properties of the choice of the Period, under SpecPer.                  *)
(***************************************************************************)

\* The Periods that have started at curr_timepoint, and those that start no
\* earlier than the remembered period_start.
PerStarted == {k \in 1 .. Len(fn.starts) : fn.starts[k] <= fn.curr_timepoint}

PerNotBefore == {k \in 1 .. Len(fn.starts) : fn.starts[k] >= fn.period_start}

\* C22: parse_manifest selects the Period whose start is <= curr_timepoint
\* with the smallest gap to it; when no Period has started, the latest
\* (greatest start) of the Periods whose start is >= the period_start
\* remembered; when there is none either it fails with
\* AVERROR_INVALIDDATA.
C22_PeriodSelection ==
    fn.call.op = "parse" =>
        IF PerStarted # {}
        THEN /\ fn.call.ret = RetOk
             /\ \E k \in PerStarted :
                   /\ fn.call.chosen = ToString(k)
                   /\ \A j \in PerStarted : fn.starts[j] <= fn.starts[k]
        ELSE IF PerNotBefore # {}
        THEN /\ fn.call.ret = RetOk
             /\ \E k \in PerNotBefore :
                   /\ fn.call.chosen = ToString(k)
                   /\ \A j \in PerNotBefore : fn.starts[j] <= fn.starts[k]
        ELSE fn.call.ret = AVERROR_INVALIDDATA

\* A document of three Periods none of which has started, one before the
\* remembered start and two after it, the later of them chosen.
C22_Witness ==
    /\ fn.call.op = "parse" /\ fn.call.ret = RetOk
    /\ PerStarted = {} /\ Len(fn.starts) = 3
    /\ Cardinality(PerNotBefore) = 2
    /\ \E k \in PerNotBefore : fn.call.chosen = ToString(k) /\ fn.starts[k] = 3

\* The representations the discard re-check of the next dash_read_packet
\* will open again: their stream is wanted and their parser is closed.
ToReenable ==
    {x \in AllStreams(DemuxWorld) :
        LET r == c[ListName(x[1])][x[2]] IN ~r.discard /\ ~r.ctx}

\* The greatest cur_seq_no among the representations of any kind whose
\* parser is open, and n.
MaxActiveSeqNo(n) ==
    LET active == {c[ListName(x[1])][x[2]].cur_seq_no :
                      x \in {y \in AllStreams(DemuxWorld) :
                                c[ListName(y[1])][y[2]].ctx}}
        all == active \cup {n}
    IN  CHOOSE m \in all : \A k \in all : k <= m

\* C23: when the discard re-check of dash_read_packet opens a disabled
\* representation again, that representation's cur_seq_no becomes the
\* greatest cur_seq_no of the active representations of every kind (video,
\* audio and subtitle), and is never less than it was.
C23_ReenableCatchesUpAcrossKinds ==
    [][(last'.op = "read_packet" /\ Cardinality(ToReenable) = 1) =>
           \A x \in ToReenable : \A o \in last'.open :
               (o.kind = x[1] /\ o.i = x[2]) =>
                   o.cur_seq_no
                       = MaxActiveSeqNo(c[ListName(x[1])][x[2]].cur_seq_no)]_vars

(***************************************************************************)
(* C24: after the discard re-check at the start of dash_read_packet, a     *)
(* representation whose stream is discarded has neither an open inner      *)
(* parser nor an open fetcher handle, and the representation a packet is   *)
(* read from is never a discarded one.                                     *)
(***************************************************************************)
C24_DiscardedHoldsNothing ==
    last.op = "read_packet" =>
        /\ \A st \in DemuxStreams :
               st.pls.discard => (~st.pls.ctx /\ ~st.pls.input)
        /\ last.cur # NoCur =>
               ~Stream(DemuxWorld, last.cur.kind, last.cur.i).pls.discard

\* A step in which a call of read_data, the segment open and the init
\* section passed on, read no byte of the segment: the read returned zero
\* bytes or an error.
LiveBodyReadEnds ==
    /\ fn.pc = "copy"
    /\ last'.op = "read_data" /\ last'.n = 0

C26_LiveOpenRetryKeepsCurSeqNo ==
    [][(c.is_live /\ fn.pc = "open") =>
          c'.videos[1].cur_seq_no = c.videos[1].cur_seq_no]_vars

\* The opening of a segment of a live presentation has just failed, the
\* call of read_data is back at restart with the cur_seq_no it had.
C26_Witness ==
    /\ c.is_live /\ fn.pc = "restart"
    /\ last.op = "retry"
    /\ c.videos[1].cur_seq_no = last.cur

\* C27: in a live presentation get_current_fragment calls refresh_manifest
\* only when cur_seq_no is beyond the last known sequence number or below
\* the minimum one; with cur_seq_no inside that window it calls none.
C27_RefreshOnlyOutsideWindow ==
    last.op = "refresh" => (last.cur > last.max \/ last.cur < last.min)

\* C27, amended: while the application does not interrupt, a live
\* get_current_fragment refreshes the manifest of a timeline-style
\* representation at every resolution of a fragment, whatever cur_seq_no
\* is, and again for as long as cur_seq_no is beyond the last known
\* sequence number; of a list-style one only when cur_seq_no is not an
\* index of the fragment list; of a template one never.
C27_RefreshEveryTimelineFragment ==
    /\ last.op = "refresh" =>
          /\ c.is_live
          /\ last.site = "refresh_live" => net.style = "timeline"
          /\ last.site = "refresh_wait" =>
                 (net.style = "timeline" /\ last.cur > last.max)
          /\ last.site = "refresh_list" =>
                 (net.style = "list" /\ last.cur >= last.n_fragments)
    /\ (c.is_live /\ net.style = "timeline" /\ fn.pc = "open") =>
          (last.op = "refresh" /\ last.ret = RetOk)

\* A refresh made for a live timeline-style representation whose
\* cur_seq_no was inside the window, after which the fragment is opened.
C27_Witness ==
    /\ c.is_live /\ net.style = "timeline" /\ fn.pc = "open"
    /\ last.op = "refresh" /\ last.site = "refresh_live"
    /\ last.cur > last.min /\ last.cur <= last.max

\* The start of the segment the reader is at, in whole seconds.
TpSegmentSeconds ==
    CDiv(get_segment_start_time_based_on_timeline(c, fn.pls, fn.pls.cur_seq_no),
         fn.pls.fragment_timescale)

\* C28: the curr_timepoint of a live refresh is period_start +
\* segment_start_time(cur_seq_no) / fragment_timescale for a timeline-style
\* representation, whatever period_start is, and (first_seq_no *
\* fragment_duration) / fragment_timescale for a template one.
C28_TimepointIsPeriodStartPlusOffset ==
    fn.call.op = "timepoint" =>
        fn.call.res =
            IF Len(fn.pls.timelines) > 0
            THEN fn.pls.period_start + TpSegmentSeconds
            ELSE CDiv(fn.pls.first_seq_no * fn.pls.fragment_duration,
                      fn.pls.fragment_timescale)

(***************************************************************************)
(* The refresh into a new period, under SpecRefresh.                       *)
(***************************************************************************)

\* The last refresh succeeded on a timeline-style driver and took the
\* presentation to a period that starts after the one the driver was
\* bound to.
RefNewPeriod ==
    /\ last.op = "refresh" /\ last.ret = RetOk
    /\ net.style = "timeline"
    /\ c.period_start > RefDriverBefore.period_start

\* The driver's representation in the period the last refresh selected.
RefShadow ==
    LET k == CHOOSE k \in 1 .. Len(net.loaded.periods) :
                 net.loaded.periods[k].start = c.period_start
    IN  RepList(net.loaded.periods[k], net.driver.kind)[net.driver.i]

\* C29: when a live refresh of a timeline-style representation selects a
\* period that starts after the one the representation is bound to, the
\* representation's cur_seq_no becomes the new first_seq_no, its timeline
\* the new period's, and its init section is marked for reload.
C29_NewPeriodRestartsTimeline ==
    RefNewPeriod =>
        /\ RefDriver.cur_seq_no = RefShadow.first_seq_no
        /\ RefDriver.first_seq_no = RefShadow.first_seq_no
        /\ RefDriver.timelines = RefShadow.timelines
        /\ ~RefDriver.init_loaded
        /\ RefDriver.init_section = RefShadow.init_section

\* The start number of the driver's fragment list in the period starting
\* at start of the document m, or -1 when m has no such period.
RefListStart(m, start) ==
    LET ks == {k \in 1 .. Len(m.periods) : m.periods[k].start = start}
    IN  IF ks = {} THEN -1
        ELSE RepList(m.periods[CHOOSE k \in ks : TRUE],
                     net.driver.kind)[net.driver.i].start_number

C31_DriverFromOneManifest ==
    (last.op = "refresh" /\ last.ret = RetOk /\ net.driver.kind # "subtitle") =>
        /\ RefDriver.timelines = RefShadow.timelines
        /\ RefDriver.fragments = RefShadow.fragments
        /\ RefDriver.first_seq_no = RefShadow.first_seq_no
        /\ RefDriver.start_number = RefShadow.start_number
        /\ RefDriver.last_seq_no = calc_max_seg_no(RefShadow, c, 0)
        /\ RefDriver.period_start = c.period_start
        /\ RefDriver.period_duration = c.period_duration

(***************************************************************************)
(* dash_seek on its own: an on-demand timeline-style representation is     *)
(* drawn, and each step is one dash_seek on it while it is discarded       *)
(* (dry_run), so that nothing is reopened.                                 *)
(***************************************************************************)
SeekMaxTimescale == 2
SeekMaxHalfSeconds == 14

\* The timestamps asked for, in milliseconds.
SeekTimes == {500 * k : k \in 0 .. SeekMaxHalfSeconds}

InitSeek ==
    /\ \E tl \in FnTimelines, first \in 0 .. FnMaxFirstSeqNo,
          ts \in 1 .. SeekMaxTimescale :
          LET cx == [ZeroContext EXCEPT !.period_duration = FnPeriodDuration]
              rep0 == [ZeroRep EXCEPT !.timelines = tl,
                                      !.first_seq_no = first,
                                      !.start_number = first,
                                      !.cur_seq_no = first,
                                      !.fragment_timescale = ts]
          IN  /\ \A i \in 1 .. Len(tl) : tl[i].repeat = -1 => tl[i].duration >= ts
              /\ c = cx
              /\ fn = [pls |-> [rep0 EXCEPT !.last_seq_no = calc_max_seg_no(rep0, cx, 0)],
                       call |-> FnNone]
    /\ net = 0
    /\ last = 0

\* dash_seek(s, pls, seek_pos_msec, flags, 1)
SeekDry ==
    /\ \E pos \in SeekTimes :
          \E r \in {dash_seek(0, c, [pls |-> fn.pls], pos, TRUE, 0)} :
              fn' = [pls |-> r.st.pls,
                     call |-> [op |-> "seek", arg |-> pos,
                               res |-> r.st.pls.cur_seq_no, res1 |-> 0]]
    /\ UNCHANGED <<c, net, last>>

SpecSeek == InitSeek /\ [][SeekDry]_vars

\* The end in milliseconds of the segment of index k (from 0) of the
\* timeline of pls, whose entry i holds (last_seq_no - first_seq_no + 1
\* segments when it repeats to the end of the period).
SeekSegments(pls) == pls.last_seq_no - pls.first_seq_no + 1

RECURSIVE SeekEndMs(_, _, _, _, _)
SeekEndMs(pls, i, k, before, start) ==
    LET e == pls.timelines[i]
        s0 == IF e.starttime > 0 THEN e.starttime ELSE start
        n == IF e.repeat = -1 THEN SeekSegments(pls) - before ELSE e.repeat + 1
    IN  IF k < before + n \/ i = Len(pls.timelines)
        THEN CDiv((s0 + (k - before + 1) * e.duration) * 1000,
                  pls.fragment_timescale)
        ELSE SeekEndMs(pls, i + 1, k, before + n, s0 + n * e.duration)

\* C32: an on-demand seek on a timeline-style representation sets
\* cur_seq_no to first_seq_no + i, with i the index of the first segment
\* whose cumulative end time in milliseconds exceeds seek_pos_msec, clamped
\* to last_seq_no; the result lies in [first_seq_no, last_seq_no].
C32_TimelineSeekFirstSegmentEndingAfter ==
    fn.call.op = "seek" =>
        LET hits == {k \in 0 .. SeekSegments(fn.pls) - 1 :
                        SeekEndMs(fn.pls, 1, k, 0, 0) > fn.call.arg}
            i == IF hits = {} THEN SeekSegments(fn.pls)
                 ELSE CHOOSE k \in hits : \A x \in hits : k <= x
        IN  /\ fn.pls.cur_seq_no = Min(fn.pls.first_seq_no + i, fn.pls.last_seq_no)
            /\ fn.pls.cur_seq_no \in fn.pls.first_seq_no .. fn.pls.last_seq_no

(***************************************************************************)
(* The seek across the representations, under Spec.                        *)
(***************************************************************************)

\* C33: a seek by time on an on-demand presentation updates the position
\* (cur_seq_no, cur_timestamp, cur_seg_offset, init_sec_buf_read_offset) of
\* every representation of every kind; a representation that is disabled
\* gets the same update without being reopened; so after the seek all
\* representations with the same segment descriptors have the same
\* cur_seq_no.
C33_SeekUpdatesEveryRepresentation ==
    [][last'.op = "seek" =>
          \E pos \in net.seeks :
              \A x \in AllStreams(DemuxWorld) :
                  LET old == c[ListName(x[1])][x[2]]
                      new == c'[ListName(x[1])][x[2]]
                  IN  /\ new.cur_seq_no = SeekSeqNo(old, pos)
                      /\ ~old.ctx =>
                             /\ new.cur_timestamp = 0
                             /\ new.cur_seg_offset = 0
                             /\ new.init_sec_buf_read_offset = 0
                             /\ ~new.ctx]_vars

(***************************************************************************)
(* The fragment of a template+duration representation: an on-demand        *)
(* representation with a media template holding $Number$ and $Time$ is     *)
(* drawn at some cur_seq_no, and each step resolves its current fragment.  *)
(***************************************************************************)
TmplMaxStart == 1
TmplMaxDuration == 2
TmplMaxOffset == 2
TmplSegments == 3

\* SegmentTemplate@media as a sequence of literals and placeholders.
TmplMedia == <<"seg-", "$Number$", "-", "$Time$", ".m4s">>

\* ff_dash_fill_tmpl_params(dst, size, template, rep_id, number, bit_rate,
\* time): every placeholder replaced by its value.
RECURSIVE ff_dash_fill_tmpl_params(_, _, _, _, _)
ff_dash_fill_tmpl_params(template, rep_id, number, bit_rate, time) ==
    IF Len(template) = 0 THEN ""
    ELSE (IF template[1] = "$RepresentationID$" THEN ToString(rep_id)
          ELSE IF template[1] = "$Number$" THEN ToString(number)
          ELSE IF template[1] = "$Bandwidth$" THEN ToString(bit_rate)
          ELSE IF template[1] = "$Time$" THEN ToString(time)
          ELSE template[1])
         \o ff_dash_fill_tmpl_params(Tail(template), rep_id, number, bit_rate, time)

\* get_current_fragment on an on-demand representation without fragment
\* list, whose url_template is given (lines 1982-2009).
get_current_fragment_template(pls, cx, url_template) ==
    IF pls.cur_seq_no <= pls.last_seq_no
    THEN [url |-> ff_dash_fill_tmpl_params(
                      url_template, 0, pls.cur_seq_no, 0,
                      get_segment_start_time_based_on_timeline(cx, pls,
                                                               pls.cur_seq_no)),
          url_offset |-> 0, size |-> -1]
    ELSE NoFragment

InitTmpl ==
    /\ \E first \in 0 .. TmplMaxStart, dur \in 1 .. TmplMaxDuration,
          pto \in 0 .. TmplMaxOffset, corr \in BOOLEAN :
          LET cx == [ZeroContext EXCEPT
                        !.use_timeline_segment_offset_correction = corr,
                        !.media_presentation_duration = TmplSegments * dur]
              rep0 == [ParsedRep("video", "v1", RefAttrs,
                                 DemuxTemplateDesc(first, dur, 1))
                          EXCEPT !.presentation_timeoffset = pto]
              rep1 == [rep0 EXCEPT !.last_seq_no = calc_max_seg_no(rep0, cx, 0)]
          IN  /\ c = cx
              /\ \E cur \in first .. rep1.last_seq_no + 1 :
                    fn = [pls |-> [rep1 EXCEPT !.cur_seq_no = cur],
                          seg |-> NoFragment, calls |-> 0]
    /\ net = [url_template |-> TmplMedia]
    /\ last = 0

\* get_current_fragment(pls, &seg)
TmplFragment ==
    /\ fn.calls = 0
    /\ fn' = [fn EXCEPT !.seg = get_current_fragment_template(
                                    fn.pls, c, net.url_template),
                        !.calls = 1]
    /\ UNCHANGED <<c, net, last>>

SpecTmpl == InitTmpl /\ [][TmplFragment]_vars

\* C34: for a template+duration representation, the fragment built for
\* sequence number N expands $Number$ to N and $Time$ to
\* (N - first_seq_no) * fragment_duration + presentation_timeoffset.
C34_TemplateNumberAndTime ==
    (fn.calls = 1 /\ fn.seg # NoFragment) =>
        fn.seg.url =
            "seg-" \o ToString(fn.pls.cur_seq_no) \o "-"
            \o ToString((fn.pls.cur_seq_no - fn.pls.first_seq_no)
                            * fn.pls.fragment_duration
                        + fn.pls.presentation_timeoffset)
            \o ".m4s"

(***************************************************************************)
(* The same consumer on a presentation of one video representation with a  *)
(* segment list whose start number is drawn.                               *)
(***************************************************************************)
ListMaxStart == 2
ListMaxFragments == 3

InitList ==
    /\ c = ZeroContext
    /\ \E first \in 0 .. ListMaxStart, n \in 2 .. ListMaxFragments :
          net = [manifest |-> DemuxManifest(
                                  [style |-> "list", first |-> first, n |-> n],
                                  DemuxDuration, 1, 0),
                 segs |-> first .. first + n - 1, broken |-> {},
                 bufs |-> DemuxBufSizes, seeks |-> {0},
                 opened |-> FALSE,
                 io |-> [videos |-> <<>>, audios |-> <<>>, subtitles |-> <<>>]]
    /\ last = DemuxLast("none", RetOk, NoCur, ZeroContext, DemuxWorld)
    /\ fn = 0

SpecList == InitList /\ [][Next]_vars

\* C35: for an explicit-fragment-list representation the fragment returned
\* for cur_seq_no = N is fragments[N - first_seq_no] (counting from 0) for
\* every first_seq_no >= 0, so that playback from first_seq_no starts with
\* fragments[0]; on demand an N outside the list yields no fragment.
C35_ListFragmentByOffsetFromFirst ==
    \A st \in DemuxStreams :
        Len(st.pls.fragments) > 0 =>
            LET k == st.pls.cur_seq_no - st.pls.first_seq_no
            IN  get_current_fragment(st.pls, c) =
                    IF k \in 0 .. Len(st.pls.fragments) - 1
                    THEN st.pls.fragments[k + 1]
                    ELSE NoFragment

(***************************************************************************)
(* calc_cur_seg_no on a live template+duration representation: the MPD's   *)
(* times and the representation are drawn, and each step is one call.  The *)
(* times are uint64_t in the code; the ones drawn keep every difference    *)
(* the code forms non-negative, so that nothing wraps.                     *)
(***************************************************************************)
CurMaxNow == 4
CurMaxTime == 1
CurMaxPublish == 3
CurMaxDuration == 2

\* The value of num before the option is applied (lines 1505-1517).
CurSegNoComputed(pls, cx, now) ==
    IF pls.presentation_timeoffset # 0
    THEN pls.first_seq_no
         + CDiv((now - cx.availability_start_time) * pls.fragment_timescale
                    - pls.presentation_timeoffset,
                pls.fragment_duration)
         - cx.min_buffer_time
    ELSE IF cx.publish_time > 0 /\ cx.availability_start_time = 0
    THEN IF cx.min_buffer_time # 0
         THEN pls.first_seq_no
              + CDiv((cx.publish_time + pls.fragment_duration
                          - cx.suggested_presentation_delay)
                         * pls.fragment_timescale,
                     pls.fragment_duration)
              - cx.min_buffer_time
         ELSE pls.first_seq_no
              + CDiv((cx.publish_time - cx.time_shift_buffer_depth
                          + pls.fragment_duration
                          - cx.suggested_presentation_delay)
                         * pls.fragment_timescale,
                     pls.fragment_duration)
    ELSE pls.first_seq_no
         + CDiv((now - cx.availability_start_time
                     - cx.suggested_presentation_delay)
                    * pls.fragment_timescale,
                pls.fragment_duration)

\* The branch of calc_cur_seg_no for c->is_live, no fragment list, no
\* timeline and pls->fragment_duration set (lines 1503-1522).
calc_cur_seg_no_duration(pls, cx, now) ==
    Bind(CurSegNoComputed(pls, cx, now), LAMBDA num :
        IF pls.presentation_timeoffset # 0 THEN num
        ELSE IF cx.publish_time > 0 /\ cx.availability_start_time = 0
        THEN IF /\ num > pls.first_seq_no
                /\ cx.time_shift_buffer_depth = 0
                /\ cx.suggested_presentation_delay = 0
                /\ cx.fetch_completed_segments_only
             THEN num - 1 ELSE num
        ELSE IF /\ num > pls.first_seq_no
                /\ cx.suggested_presentation_delay = 0
                /\ cx.fetch_completed_segments_only
             THEN num - 1 ELSE num)

InitCur ==
    /\ \E ast \in 0 .. CurMaxTime, pub \in 0 .. CurMaxPublish,
          tsbd \in 0 .. CurMaxTime, spd \in 0 .. CurMaxTime,
          mbt \in 0 .. CurMaxTime, only \in BOOLEAN :
          /\ pub > 0 => pub >= tsbd + spd
          /\ c = [ZeroContext EXCEPT
                     !.is_live = TRUE,
                     !.availability_start_time = ast,
                     !.publish_time = pub,
                     !.time_shift_buffer_depth = tsbd,
                     !.suggested_presentation_delay = spd,
                     !.min_buffer_time = mbt,
                     !.fetch_completed_segments_only = only]
    /\ \E first \in 0 .. 1, dur \in 1 .. CurMaxDuration, pto \in 0 .. 1,
          now \in 2 .. CurMaxNow :
          /\ net = [now |-> now]
          /\ fn = [pls |-> [ParsedRep("video", "v1", RefAttrs,
                                      DemuxTemplateDesc(first, dur, 1))
                               EXCEPT !.presentation_timeoffset = pto],
                   call |-> FnNone]
    /\ last = 0

\* calc_cur_seg_no(s, pls), as open_demux_for_component calls it.
CurSegNo ==
    /\ fn.call.op = "none"
    /\ \E r \in {calc_cur_seg_no_duration(fn.pls, c, net.now)} :
          fn' = [pls |-> [fn.pls EXCEPT !.cur_seq_no = r],
                 call |-> [op |-> "cur_seg_no", arg |-> 0, res |-> r,
                           res1 |-> CurSegNoComputed(fn.pls, c, net.now)]]
    /\ UNCHANGED <<c, net, last>>

SpecCur == InitCur /\ [][CurSegNo]_vars

\* C36: with fetch_completed_segments_only on, the live current sequence
\* number of a template+duration representation is reduced by 1 in every
\* branch of the computation whenever time_shift_buffer_depth and
\* suggested_presentation_delay are both 0 and the computed value is
\* greater than first_seq_no, and is not reduced when either is non-zero.
C36_CompletedOnlyReducesInEveryBranch ==
    (fn.call.op = "cur_seg_no" /\ c.fetch_completed_segments_only) =>
        fn.call.res =
            IF /\ c.time_shift_buffer_depth = 0
               /\ c.suggested_presentation_delay = 0
               /\ fn.call.res1 > fn.pls.first_seq_no
            THEN fn.call.res1 - 1
            ELSE fn.call.res1

(***************************************************************************)
(* calc_cur_seg_no on a live timeline-style representation: a timeline     *)
(* with segments of some tens of seconds is drawn, and each step is one    *)
(* call.                                                                   *)
(***************************************************************************)
EdgeMaxEntries == 2
EdgeMaxRepeat == 2
EdgeMaxTimescale == 2
EdgeMaxFirstSeqNo == 1

\* The S elements: segments of 20 or 40 ticks, and a one-tick entry that
\* repeats to the end of the period.
EdgeEntries ==
    {S(t, d, r) : t \in {0, 100}, d \in {20, 40}, r \in 0 .. EdgeMaxRepeat}
    \cup {S(0, 1, -1)}

EdgeTimelines == UNION {[1 .. n -> EdgeEntries] : n \in 1 .. EdgeMaxEntries}

InitEdge ==
    /\ \E tl \in EdgeTimelines, first \in 0 .. EdgeMaxFirstSeqNo,
          ts \in 1 .. EdgeMaxTimescale, corr \in BOOLEAN :
          LET cx == [ZeroContext EXCEPT
                        !.is_live = TRUE,
                        !.use_timeline_segment_offset_correction = corr]
              rep0 == [ZeroRep EXCEPT !.timelines = tl,
                                      !.first_seq_no = first,
                                      !.start_number = first,
                                      !.fragment_timescale = ts]
          IN  /\ \A i \in 1 .. Len(tl) : tl[i].repeat = -1 => ts = 1
              /\ c = cx
              /\ fn = [pls |-> [rep0 EXCEPT !.last_seq_no = calc_max_seg_no(rep0, cx, 0)],
                       call |-> FnNone]
    /\ net = 0
    /\ last = 0

\* calc_cur_seg_no(s, pls), as open_demux_for_component calls it.
EdgeCurSegNo ==
    /\ fn.call.op = "none"
    /\ \E r \in {calc_cur_seg_no_live(fn.pls, c, 0)} :
          fn' = [pls |-> [fn.pls EXCEPT !.cur_seq_no = r],
                 call |-> [op |-> "cur_seg_no", arg |-> 0, res |-> r, res1 |-> 0]]
    /\ UNCHANGED <<c, net, last>>

SpecEdge == InitEdge /\ [][EdgeCurSegNo]_vars

\* The segments, by index from 0, that start later than 60 seconds before
\* the end of the timeline tl.
EdgeLate(tl, ts) ==
    {k \in 0 .. FnCount(tl, Len(tl)) - 1 :
        FnReferenceStart(tl, k) > FnEndOf(tl, Len(tl)) - 60 * ts}

\* C37: for a live timeline-style representation calc_cur_seg_no returns
\* the number of the first segment that starts later than 60 seconds before
\* the end of the timeline, or first_seq_no when there is none; the result
\* lies in [first_seq_no, last_seq_no], with
\* use_timeline_segment_offset_correction on or off.
C37_LiveEdgeSixtySecondsBack ==
    fn.call.op = "cur_seg_no" =>
        /\ (\A i \in 1 .. Len(fn.pls.timelines) : fn.pls.timelines[i].repeat >= 0)
           => LET late == EdgeLate(fn.pls.timelines, fn.pls.fragment_timescale)
              IN  fn.call.res =
                      IF late = {} THEN fn.pls.first_seq_no
                      ELSE fn.pls.first_seq_no
                           + (CHOOSE k \in late : \A x \in late : k <= x)
        /\ fn.call.res \in fn.pls.first_seq_no .. fn.pls.last_seq_no

(***************************************************************************)
(* The wait for a segment across Periods: a live timeline-style            *)
(* presentation was opened on its first Period, the reader is somewhere in *)
(* that Period's timeline or just past its end, and the manifest the       *)
(* server returns from now on lists a later Period, with or without the    *)
(* first one.  Each step is a piece of get_current_fragment up to its next *)
(* refresh_manifest; turns is the parity of the number of refreshes the    *)
(* call has made.                                                          *)
(***************************************************************************)
WaitMaxStart == 3
WaitMaxAppend == 1

\* The first Period, starting at p0, and the Period that follows it.
WaitFirst(p0, k) == RefPeriod(p0, RefTimelineDesc(1, 0, k), RefAttrs, "v1")

WaitLater(p0, k) ==
    RefPeriod(p0 + 2 + k, RefTimelineDesc(1, 0, k), RefAttrs, "v1")

InitWait ==
    /\ \E p0 \in {0, WaitMaxStart}, k \in 0 .. WaitMaxAppend,
          listed \in BOOLEAN, corr \in BOOLEAN :
          \E p \in {parse_manifest(
                        [ZeroContext EXCEPT
                            !.is_live = TRUE,
                            !.use_timeline_segment_offset_correction = corr],
                        RefManifest(<<WaitFirst(p0, k)>>), 0)} :
              \E cur \in 0 .. 2 + k :
                  /\ c = [p.c EXCEPT
                             !.videos = <<RefOpened(p.c.videos[1], p.c, cur)>>,
                             !.audios = <<RefOpened(p.c.audios[1], p.c, 0)>>,
                             !.subtitles = <<RefOpened(p.c.subtitles[1], p.c, 0)>>]
                  /\ net = [manifest |->
                                RefManifest(
                                    IF listed
                                    THEN <<WaitFirst(p0, k), WaitLater(p0, k)>>
                                    ELSE <<WaitLater(p0, k)>>),
                            opened_at |-> p0]
    /\ last = 0
    /\ fn = [pc |-> "idle", seg |-> NoFragment, min |-> 0, max |-> 0,
             turns |-> 0]

\* read_data calls get_current_fragment (line 2155), which runs to its
\* first refresh or returns a fragment.
WaitCall ==
    /\ fn.pc = "idle"
    /\ \E g \in {GetFragmentList(c.videos[1], c, 0)} :
          /\ fn' = [fn EXCEPT !.pc = g.next, !.seg = g.seg,
                              !.min = g.min, !.max = g.max]
          /\ c' = [c EXCEPT !.videos[1] = g.pls]
    /\ UNCHANGED <<net, last>>

\* One refresh_manifest of get_current_fragment (line 1955 or line 1970)
\* and what follows it up to the next refresh or the return.
WaitRefresh ==
    /\ fn.pc \in {"refresh_live", "refresh_wait"}
    /\ \E r \in {refresh_manifest(c, "video", 1, net.manifest, 0)} :
          IF r.ret # RetOk
          THEN /\ c' = r.c
               /\ fn' = [fn EXCEPT !.pc = "failed", !.turns = (@ + 1) % 2]
          ELSE \E g \in {IF fn.pc = "refresh_live"
                         THEN GetFragmentAdjust(r.c.videos[1], r.c, 0,
                                                fn.min, fn.max)
                         ELSE GetFragmentWait(
                                  r.c.videos[1], r.c, fn.min,
                                  calc_max_seg_no(r.c.videos[1], r.c, 0))} :
                   /\ fn' = [pc |-> g.next, seg |-> g.seg, min |-> g.min,
                             max |-> g.max, turns |-> (fn.turns + 1) % 2]
                   /\ c' = [r.c EXCEPT !.videos[1] = g.pls]
    /\ UNCHANGED <<net, last>>

\* The parser makes its call, and a call of get_current_fragment under way
\* goes on running: weak fairness of WaitCall and of WaitRefresh, the
\* latter written out with its enabling condition, which is that the call
\* stands at one of the two refreshes.
SpecWait ==
    /\ InitWait /\ [][WaitCall \/ WaitRefresh]_vars
    /\ WF_vars(WaitCall)
    /\ \/ []<>(fn.pc \notin {"refresh_live", "refresh_wait"})
       \/ []<><<WaitRefresh>>_vars

\* C38: in a live timeline-style presentation with several Periods, once
\* cur_seq_no has passed the end of the current Period's timeline and the
\* manifest lists a later Period, the refresh-until-available loop
\* eventually binds the representation to the later Period (period_start
\* increases and a segment becomes available), also when the current
\* Period starts at 0 and is still listed; it does not refresh for ever.
C38_WaitReachesLaterPeriod ==
    (/\ fn.pc \in {"refresh_live", "refresh_wait"}
     /\ c.videos[1].cur_seq_no > c.videos[1].last_seq_no
     /\ c.videos[1].period_start = net.opened_at)
    ~> (/\ fn.pc = "open"
        /\ c.videos[1].period_start > net.opened_at
        /\ c.videos[1].cur_seq_no <= c.videos[1].last_seq_no)

(***************************************************************************)
(* The same consumer on a presentation whose audio representation has      *)
(* fewer segments than its video representation (segment lists, no init    *)
(* sections).                                                              *)
(***************************************************************************)
UnevenMaxVideo == 3
UnevenMaxAudio == 2

InitUneven ==
    /\ c = ZeroContext
    /\ \E nv \in 2 .. UnevenMaxVideo, na \in 2 .. UnevenMaxAudio :
          net = [manifest |->
                     [DemuxManifest([style |-> "list", first |-> 0, n |-> nv],
                                    DemuxDuration, 1, 1)
                         EXCEPT !.periods[1].audios =
                                    <<ParsedRep("audio", "a1", RefAttrs,
                                                [style |-> "list", first |-> 0,
                                                 n |-> na])>>,
                                !.periods[1].subtitles = <<>>],
                 segs |-> 0 .. nv - 1, broken |-> {},
                 bufs |-> DemuxBufSizes, seeks |-> {0},
                 opened |-> FALSE,
                 io |-> [videos |-> <<>>, audios |-> <<>>, subtitles |-> <<>>]]
    /\ last = DemuxLast("none", RetOk, NoCur, ZeroContext, DemuxWorld)
    /\ fn = 0

SpecUneven == InitUneven /\ [][Next]_vars

\* C39: in an on-demand presentation dash_read_packet returns end of
\* stream only when every active representation has delivered all of its
\* packets: after a call that returned end of stream, as long as some
\* active representation can still deliver a packet, the next call
\* delivers a packet.
C39_EofOnlyWhenAllExhausted ==
    (last.op = "read_packet" /\ last.ret = AVERROR_EOF) =>
        \A b \in net.bufs :
            (\E st \in DemuxStreams :
                /\ st.pls.ctx
                /\ ReadPacketLoop(DemuxSrv, c, st, b).ret = RetOk) =>
                dash_read_packet(DemuxSrv, DemuxWorld, b).ret = RetOk

(***************************************************************************)
(* The representations a refresh is not driven by, under SpecRefresh.      *)
(***************************************************************************)

\* What the refresh is held to leave alone in a representation.
RefFrame(rep) ==
    [cur_seq_no |-> rep.cur_seq_no, first_seq_no |-> rep.first_seq_no,
     last_seq_no |-> rep.last_seq_no, timelines |-> rep.timelines,
     fragments |-> rep.fragments,
     init |-> <<rep.init_loaded, rep.init_section, rep.init_sec_buf,
                rep.init_sec_buf_size, rep.init_sec_data_len,
                rep.init_sec_buf_read_offset>>,
     period |-> <<rep.period_start, rep.period_duration,
                  rep.period_media_presentation_duration>>]

\* C40: a refresh driven by one representation changes only that
\* representation: after refresh_manifest, whether it returned 0 or an
\* error, every other representation is still in its list with the
\* cur_seq_no, first_seq_no, last_seq_no, timelines, fragments, init
\* section state and period binding it had before the call.
C40_RefreshLeavesOthersAlone ==
    last.op = "refresh" =>
        \A kind \in {"video", "audio", "subtitle"} :
            /\ Len(RepList(c, kind)) = Len(last.pre[kind \o "s"])
            /\ \A i \in 1 .. Len(last.pre[kind \o "s"]) :
                  [kind |-> kind, i |-> i] # net.driver =>
                      RefFrame(RepList(c, kind)[i])
                          = RefFrame(last.pre[kind \o "s"][i])

====
